---- MODULE Spec2Model ----
(***************************************************************************)
(* Agent session orchestrator of plane/agent: the invoke and cancel        *)
(* endpoints (views/invoke.py), the Celery task run_agent_task (tasks.py)  *)
(* and the relay channel it publishes on, over the AgentSession,           *)
(* AgentProvider, AgentProviderVariant and WorkspaceAgentConfig tables.    *)
(*                                                                         *)
(* One workspace is modelled.  A session id is the index of its row in     *)
(* `sessions`.  A timestamp is NULL or the marker "T"; a transcript is the *)
(* sequence of the chunks concatenated so far.  The PR_URL/BRANCH trailer  *)
(* fields of the row are not modelled.                                     *)
(***************************************************************************)
EXTENDS Naturals, Integers, Sequences, FiniteSets, TLC

----------------------------------------------------------------------------
(* Bounds of the model *)

\* rows the AgentSession table may hold when both strategies and every
\* workspace configuration are explored
MaxRunSessions == 1
\* state tokens the connect endpoint issues
MaxStates == 2

\* rows the AgentSession table may hold when claude alone is enabled
MaxSessions == 2
\* invoke requests that may be between their count and their create
MaxInflight == 2
\* tasks the Celery workers execute at the same time
MaxWorkers == 1
\* output chunks one execution produces
MaxChunks == 1
\* largest max_concurrent_sessions a workspace config is given
MaxCap == 2
\* exceptions the environment (redis, Docker, database, provider API) raises
MaxFaults == 1

SessionIds == 1..(IF MaxSessions > MaxRunSessions THEN MaxSessions ELSE MaxRunSessions)
Handlers == 1..MaxInflight

----------------------------------------------------------------------------
(* Values *)

NULL == "NULL"
\* container_id of a row without container (ids are positive)
NoContainer == 0
\* response_text of a row whose transcript was never stored
NullText == <<NULL>>
\* the timestamp timezone.now() returns
Now == "T"

PENDING == "pending"
PROVISIONING == "provisioning"
RUNNING == "running"
STREAMING == "streaming"
COMPLETED == "completed"
FAILED == "failed"
CANCELLED == "cancelled"
TIMED_OUT == "timed_out"

Status == {PENDING, PROVISIONING, RUNNING, STREAMING,
           COMPLETED, FAILED, CANCELLED, TIMED_OUT}

\* the status__in list of the invoke endpoint and of the cancel endpoint
active_statuses == {PENDING, PROVISIONING, RUNNING, STREAMING}

\* the terminal_statuses list of the stream endpoint
terminal_statuses == {COMPLETED, FAILED, CANCELLED, TIMED_OUT}

HTTP_200_OK == 200
HTTP_201_CREATED == 201
HTTP_400_BAD_REQUEST == 400
HTTP_404_NOT_FOUND == 404
HTTP_429_TOO_MANY_REQUESTS == 429

\* default of WorkspaceAgentConfig.timeout_minutes
DefaultTimeoutMinutes == 15

----------------------------------------------------------------------------
(* Provider catalog: the rows seeded by migration 0002, with the is_enabled *)
(* flags either as migration 0005 leaves them or as an administrator who    *)
(* re-enabled gemini and its flash variant leaves them.                     *)

ProviderSlugs == {"claude", "gemini"}

SeededVariants ==
    { [provider |-> "claude", slug |-> "opus",   model_id |-> "claude-opus-4-6",   is_default |-> FALSE],
      [provider |-> "claude", slug |-> "sonnet", model_id |-> "claude-sonnet-4-6", is_default |-> TRUE],
      [provider |-> "claude", slug |-> "haiku",  model_id |-> "claude-haiku-4-5",  is_default |-> FALSE],
      [provider |-> "gemini", slug |-> "pro",    model_id |-> "gemini-2.5-pro",    is_default |-> TRUE],
      [provider |-> "gemini", slug |-> "flash",  model_id |-> "gemini-2.0-flash",  is_default |-> FALSE] }

\* AgentProvider.is_enabled after migration 0005 (sonnet only)
ProvidersSonnetOnly == [p \in ProviderSlugs |-> [is_enabled |-> (p = "claude")]]

VariantsSonnetOnly ==
    { [provider |-> v.provider, slug |-> v.slug, model_id |-> v.model_id,
       is_default |-> v.is_default,
       is_enabled |-> (v.provider = "claude" /\ v.slug = "sonnet")] : v \in SeededVariants }

\* the same catalog after gemini and gemini/flash were re-enabled by hand
ProvidersReenabled == [p \in ProviderSlugs |-> [is_enabled |-> TRUE]]

VariantsReenabled ==
    { [provider |-> v.provider, slug |-> v.slug, model_id |-> v.model_id,
       is_default |-> v.is_default,
       is_enabled |-> (v.slug \in {"sonnet", "flash"})] : v \in SeededVariants }

Catalogs == { [providers |-> ProvidersSonnetOnly, variants |-> VariantsSonnetOnly],
              [providers |-> ProvidersReenabled,  variants |-> VariantsReenabled] }

----------------------------------------------------------------------------
(* Token encryption (utils/encryption.py).  A Fernet ciphertext is the pair *)
(* <<key, plaintext>>: it authenticates under the key that produced it and  *)
(* under no other.  The empty string is <<>>.                               *)

SECRET_KEY == "secret"
\* a ciphertext written under another instance secret
OtherSecret == "rotated"

EmptyCiphertext == <<>>

_get_fernet_key(secret) == <<"sha256", secret>>

\* an encryption under a key other than the one decryption derives
encrypt_token_other_key(token) ==
    IF token = "" THEN EmptyCiphertext
    ELSE <<_get_fernet_key(OtherSecret), token>>

encrypt_token(token) ==
    IF token = "" THEN EmptyCiphertext
    ELSE <<_get_fernet_key(SECRET_KEY), token>>

\* a decryption that answers the empty string for what it cannot decrypt
decrypt_token_fail_open(encrypted_token) ==
    IF encrypted_token = EmptyCiphertext THEN [raised |-> FALSE, value |-> ""]
    ELSE IF encrypted_token[1] = _get_fernet_key(SECRET_KEY)
         THEN [raised |-> FALSE, value |-> encrypted_token[2]]
         ELSE [raised |-> FALSE, value |-> ""]

\* [raised |-> TRUE] is cryptography's InvalidToken
decrypt_token(encrypted_token) ==
    IF encrypted_token = EmptyCiphertext THEN [raised |-> FALSE, value |-> ""]
    ELSE IF encrypted_token[1] = _get_fernet_key(SECRET_KEY)
         THEN [raised |-> FALSE, value |-> encrypted_token[2]]
         ELSE [raised |-> TRUE, value |-> ""]

\* the OAuth access token the callback stored for the workspace
AccessToken == "sk-ant-oat01-x"

----------------------------------------------------------------------------
(* Workspace configuration rows (models/config.py) *)

NoConfig == [exists |-> FALSE, is_enabled |-> FALSE, oauth_token_encrypted |-> EmptyCiphertext,
             max_concurrent_sessions |-> 0, timeout_minutes |-> 0]

Config(is_enabled, token, cap) ==
    [exists |-> TRUE, is_enabled |-> is_enabled, oauth_token_encrypted |-> token,
     max_concurrent_sessions |-> cap, timeout_minutes |-> DefaultTimeoutMinutes]

\* a workspace with both providers connected
ConnectedConfigs ==
    [claude |-> Config(TRUE, encrypt_token(AccessToken), 1),
     gemini |-> Config(TRUE, encrypt_token(AccessToken), 1)]

\* workspaces with a token written under another secret and a disabled
\* row, and with a row without token and a missing row
BrokenConfigs ==
    { [claude |-> Config(TRUE, <<_get_fernet_key(OtherSecret), AccessToken>>, 1),
       gemini |-> Config(FALSE, encrypt_token(AccessToken), 1)],
      [claude |-> Config(TRUE, EmptyCiphertext, 1),
       gemini |-> NoConfig] }

\* the deployments the model starts from
Worlds ==
    { [providers |-> ProvidersReenabled, variants |-> VariantsReenabled, configs |-> ConnectedConfigs] }
    \cup
    { [providers |-> c.providers, variants |-> c.variants, configs |-> w] :
          c \in Catalogs, w \in BrokenConfigs }

----------------------------------------------------------------------------
VARIABLES
    providers,   \* AgentProvider rows: slug -> [is_enabled]
    variants,    \* AgentProviderVariant rows
    configs,     \* WorkspaceAgentConfig rows of the workspace: slug -> row
    sessions,    \* AgentSession rows, in creation order
    invoke,      \* the invoke requests in progress, per handler
    cancel,      \* the cancel request in progress, per session
    queue,       \* Celery broker: session ids of the enqueued tasks
    run,         \* the run_agent_task execution of each session
    containers,  \* the Docker container of each session
    channel,     \* messages published on agent:session:<id>, in order
    faults,      \* exceptions raised so far by redis, Docker, the database and the provider API
    environ,     \* instance configuration and process environment keys
    last,        \* the response of the last finished invoke or cancel handler
    stream,      \* the stream request and event_stream generator of each observer
    call,        \* the last call of a credential function: arguments and result
    oauth        \* OAuth state keys in redis and the callback requests in progress

\* what no request of the session endpoints and no run writes
catalogVars == <<providers, variants, configs, environ, call, oauth>>
vars == <<providers, variants, configs, environ, sessions, invoke, cancel, queue,
          run, containers, channel, faults, last, stream, call, oauth>>

----------------------------------------------------------------------------
(* Rows and process states *)

\* the row AgentSession.objects.create writes (views/invoke.py, models/session.py defaults)
NewSession(provider_slug, variant_slug, model_id, timeout_minutes) ==
    [provider_slug |-> provider_slug, variant_slug |-> variant_slug,
     model_id |-> model_id, timeout_minutes |-> timeout_minutes,
     status |-> PENDING, started_at |-> NULL, completed_at |-> NULL,
     container_id |-> NoContainer, response_text |-> NullText,
     error_message |-> NULL, duration_seconds |-> NULL]

AllFields == {"provider_slug", "variant_slug", "model_id", "timeout_minutes",
              "status", "started_at", "completed_at", "container_id",
              "response_text", "error_message", "duration_seconds"}

\* Model.save(update_fields=fields): the named columns of the stored row are
\* overwritten with the values of the in-memory instance, the others are kept
save(row, instance, update_fields) ==
    [f \in AllFields |-> IF f \in update_fields THEN instance[f] ELSE row[f]]

\* requested: variant_slug of request.data; variant_slug, model_id: of the variant row
IdleInvoke == [pc |-> "idle", requested |-> "", provider_slug |-> "", variant_slug |-> "",
               model_id |-> "", timeout_minutes |-> 0]

\* run_agent_task before the task is picked up: session = None; elapsed:
\* seconds the execution has been going on
IdleRun == [pc |-> "none", loaded |-> FALSE,
            session |-> NewSession("", "", "", 0),
            llm_token |-> "", full_response |-> <<>>, exit_code |-> 0, e |-> "",
            elapsed |-> 0]

\* killed: container.kill() was called on it; environment: the env of
\* containers.run
NoContainerState == [state |-> "absent", code |-> 0, killed |-> FALSE,
                     environment |-> [GOOGLE_API_KEY |-> ""]]

\* LLM_API_KEY of the instance configuration and the provider keys of os.environ
Environs == { [LLM_API_KEY |-> "", ANTHROPIC_API_KEY |-> "", GOOGLE_API_KEY |-> ""] }

\* the same keys, each one set or not
InstanceKey == "sk-instance"
AnthropicEnvKey == "sk-ant-api03-env"
GoogleEnvKey == "AIza-env"

EnvironsAll == [LLM_API_KEY : {"", InstanceKey}, ANTHROPIC_API_KEY : {"", AnthropicEnvKey},
                GOOGLE_API_KEY : {"", GoogleEnvKey}]

NoResponse == [op |-> "none", code |-> 0, id |-> 0, error |-> ""]

\* no credential function was called yet
NoCall == [fn |-> "none", provider_slug |-> "", config |-> NoConfig, token |-> "",
           ciphertext |-> EmptyCiphertext, raised |-> FALSE, value |-> ""]

\* the clients that request the live stream of a session
\* the state tokens secrets.token_urlsafe returns, in the order of issue
StateTokens == 1..MaxStates

\* the requests the callback endpoint serves
Callbacks == {"k1", "k2"}

\* workspace slugs of the URLs
Slugs == {"acme", "globex"}

\* r.get of a key that does not exist
NoStateData == <<>>

\* a callback request before it arrives
IdleCallback == [pc |-> "idle", slug |-> "", provider_slug |-> "", state |-> 0,
                 state_data |-> NoStateData]

\* issued: state tokens generated so far; redis: agent:oauth:state:<token>
IdleOAuth == [issued |-> 0,
              redis |-> [t \in StateTokens |-> NoStateData],
              callback |-> [c \in Callbacks |-> IdleCallback]]

Observers == {"o1", "o2"}

\* an observer before its request: no response, no generator
IdleStream == [pc |-> "idle", session_id |-> 0, session |-> NewSession("", "", "", 0),
               subscribed |-> FALSE, from |-> 0, cursor |-> 0,
               elapsed |-> 0, since_heartbeat |-> 0, emitted |-> <<>>, exit |-> "none"]

Init ==
    /\ \E w \in Worlds : providers = w.providers /\ variants = w.variants /\ configs = w.configs
    /\ environ \in Environs
    /\ sessions = <<>>
    /\ invoke = [h \in Handlers |-> IdleInvoke]
    /\ cancel = [s \in SessionIds |-> "idle"]
    /\ queue = <<>>
    /\ run = [s \in SessionIds |-> IdleRun]
    /\ containers = [s \in SessionIds |-> NoContainerState]
    /\ channel = [s \in SessionIds |-> <<>>]
    /\ faults = 0
    /\ last = NoResponse
    /\ stream = [o \in Observers |-> IdleStream]
    /\ call = NoCall
    /\ oauth = IdleOAuth

----------------------------------------------------------------------------
(* AgentInvokeEndpoint.post (views/invoke.py) *)

\* a count that leaves the pending sessions out
active_sessions_count_started(provider_slug) ==
    Cardinality({s \in 1..Len(sessions) :
                    /\ sessions[s].provider_slug = provider_slug
                    /\ sessions[s].status \in active_statuses \ {PENDING}})

\* AgentSession.objects.filter(workspace, provider_slug, status__in=active).count()
active_sessions_count(provider_slug) ==
    Cardinality({s \in 1..Len(sessions) :
                    /\ sessions[s].provider_slug = provider_slug
                    /\ sessions[s].status \in active_statuses})

\* a lookup that falls back to the default variant when the explicit slug
\* names no enabled variant of the provider
ResolveVariantFallback(provider_slug, variant_slug) ==
    LET named == {v \in variants : v.provider = provider_slug /\ v.slug = variant_slug /\ v.is_enabled}
    IN IF variant_slug # "" /\ named # {}
       THEN named
       ELSE {v \in variants : v.provider = provider_slug /\ v.is_default /\ v.is_enabled}

\* AgentProviderVariant rows the request resolves to: the explicit slug of
\* the provider if enabled, else the enabled default variants of the provider
ResolveVariant(provider_slug, variant_slug) ==
    IF variant_slug # ""
    THEN {v \in variants : v.provider = provider_slug /\ v.slug = variant_slug /\ v.is_enabled}
    ELSE {v \in variants : v.provider = provider_slug /\ v.is_default /\ v.is_enabled}

Reject(code, error) == [code |-> code, error |-> error]

\* checks that let a request through without workspace credential when the
\* instance or the environment holds a key
InvokeChecksWithFallback(provider_slug, variant_slug, project_id, issue_id) ==
    LET fallback == environ.LLM_API_KEY # "" \/ environ.ANTHROPIC_API_KEY # ""
                    \/ environ.GOOGLE_API_KEY # ""
    IN IF provider_slug = "" \/ project_id = "" \/ issue_id = ""
       THEN Reject(HTTP_400_BAD_REQUEST, "required")
       ELSE IF ~(provider_slug \in DOMAIN providers /\ providers[provider_slug].is_enabled)
       THEN Reject(HTTP_404_NOT_FOUND, "provider")
       ELSE IF ResolveVariant(provider_slug, variant_slug) = {}
       THEN Reject(HTTP_404_NOT_FOUND, IF variant_slug # "" THEN "variant" ELSE "no_default")
       ELSE IF ~(configs[provider_slug].exists /\ configs[provider_slug].is_enabled) /\ ~fallback
       THEN Reject(HTTP_400_BAD_REQUEST, "not_configured")
       ELSE IF configs[provider_slug].oauth_token_encrypted = EmptyCiphertext /\ ~fallback
       THEN Reject(HTTP_400_BAD_REQUEST, "no_token")
       ELSE IF active_sessions_count(provider_slug) >= configs[provider_slug].max_concurrent_sessions
       THEN Reject(HTTP_429_TOO_MANY_REQUESTS, "limit")
       ELSE Reject(0, "")

\* the checks of post() up to the concurrency limit, in the order of the code;
\* code 0 means every check passed
InvokeChecks(provider_slug, variant_slug, project_id, issue_id) ==
    IF provider_slug = "" \/ project_id = "" \/ issue_id = ""
    THEN Reject(HTTP_400_BAD_REQUEST, "required")
    ELSE IF ~(provider_slug \in DOMAIN providers /\ providers[provider_slug].is_enabled)
    THEN Reject(HTTP_404_NOT_FOUND, "provider")
    ELSE IF ResolveVariant(provider_slug, variant_slug) = {}
    THEN Reject(HTTP_404_NOT_FOUND, IF variant_slug # "" THEN "variant" ELSE "no_default")
    ELSE IF ~(configs[provider_slug].exists /\ configs[provider_slug].is_enabled)
    THEN Reject(HTTP_400_BAD_REQUEST, "not_configured")
    ELSE IF configs[provider_slug].oauth_token_encrypted = EmptyCiphertext
    THEN Reject(HTTP_400_BAD_REQUEST, "no_token")
    ELSE IF active_sessions_count(provider_slug) >= configs[provider_slug].max_concurrent_sessions
    THEN Reject(HTTP_429_TOO_MANY_REQUESTS, "limit")
    ELSE Reject(0, "")

ProviderInputs == {"", "claude", "gemini", "gpt"}
VariantInputs == {"", "sonnet", "opus", "pro", "flash"}
IdInputs == {"", "id-1"}

\* request.data of the invoke requests: every provider with every variant,
\* and the requests that lack one required field
Requests ==
    { r \in [provider_slug : ProviderInputs, variant_slug : VariantInputs,
             project_id : IdInputs, issue_id : IdInputs] :
        \/ r.provider_slug # "" /\ r.project_id # "" /\ r.issue_id # ""
        \/ /\ r.variant_slug = ""
           /\ r.provider_slug \in {"", "claude"}
           /\ Cardinality({f \in {"provider_slug", "project_id", "issue_id"} : r[f] = ""}) = 1 }

\* rows created or about to be created by an admitted request
RowsClaimed == Len(sessions) + Cardinality({h \in Handlers : invoke[h].pc = "create"})

\* a post() that creates the session row before it counts the active sessions
InvokeCheckAfterCreate(limit, h, provider_slug, variant_slug, project_id, issue_id) ==
    /\ invoke[h].pc = "idle"
    /\ \A g \in Handlers : g < h => invoke[g].pc # "idle"
    /\ RowsClaimed < limit
    /\ LET r == InvokeChecks(provider_slug, variant_slug, project_id, issue_id)
           variant == CHOOSE v \in ResolveVariant(provider_slug, variant_slug) : TRUE
       IN IF r.code = HTTP_429_TOO_MANY_REQUESTS
          THEN /\ last' = [op |-> "invoke", code |-> r.code, id |-> 0, error |-> r.error]
               /\ sessions' = Append(sessions,
                      NewSession(provider_slug, variant.slug, variant.model_id,
                                 configs[provider_slug].timeout_minutes))
               /\ UNCHANGED invoke
          ELSE IF r.code # 0
          THEN /\ last' = [op |-> "invoke", code |-> r.code, id |-> 0, error |-> r.error]
               /\ UNCHANGED <<invoke, sessions>>
          ELSE /\ invoke' = [invoke EXCEPT ![h] =
                              [pc |-> "create", requested |-> variant_slug,
                               provider_slug |-> provider_slug,
                               variant_slug |-> variant.slug, model_id |-> variant.model_id,
                               timeout_minutes |-> configs[provider_slug].timeout_minutes]]
               /\ UNCHANGED <<last, sessions>>
    /\ UNCHANGED <<catalogVars, cancel, queue, run, containers, channel, faults>>

\* post() from its first line to the concurrency check (lines 35-127);
\* requests arrive while the table has room for a row
InvokeCheck(limit, h, provider_slug, variant_slug, project_id, issue_id) ==
    /\ invoke[h].pc = "idle"
    /\ \A g \in Handlers : g < h => invoke[g].pc # "idle"
    /\ RowsClaimed < limit
    /\ LET r == InvokeChecks(provider_slug, variant_slug, project_id, issue_id)
           variant == CHOOSE v \in ResolveVariant(provider_slug, variant_slug) : TRUE
       IN IF r.code # 0
          THEN /\ last' = [op |-> "invoke", code |-> r.code, id |-> 0, error |-> r.error]
               /\ UNCHANGED invoke
          ELSE /\ invoke' = [invoke EXCEPT ![h] =
                              [pc |-> "create", requested |-> variant_slug,
                               provider_slug |-> provider_slug,
                               variant_slug |-> variant.slug, model_id |-> variant.model_id,
                               timeout_minutes |-> configs[provider_slug].timeout_minutes]]
               /\ UNCHANGED last
    /\ UNCHANGED <<catalogVars, sessions, cancel, queue, run, containers, channel, faults>>

\* a create that counts again under a lock and refuses when the cap is reached
InvokeCreateLocked(h, handoff) ==
    /\ invoke[h].pc = "create"
    /\ LET id == Len(sessions) + 1
           p == invoke[h].provider_slug
       IN IF active_sessions_count(p) >= configs[p].max_concurrent_sessions
          THEN /\ last' = [op |-> "invoke", code |-> HTTP_429_TOO_MANY_REQUESTS,
                           id |-> 0, error |-> "limit"]
               /\ UNCHANGED <<sessions, queue>>
          ELSE /\ sessions' = Append(sessions,
                      NewSession(p, invoke[h].variant_slug,
                                 invoke[h].model_id, invoke[h].timeout_minutes))
               /\ queue' = IF handoff = "queued" THEN Append(queue, id) ELSE queue
               /\ last' = [op |-> "invoke", code |-> HTTP_201_CREATED, id |-> id, error |-> ""]
    /\ invoke' = [invoke EXCEPT ![h] = IdleInvoke]
    /\ UNCHANGED <<catalogVars, cancel, run, containers, channel, faults>>

\* a create that hands the task to the broker twice
InvokeCreateTwice(h, handoff) ==
    /\ invoke[h].pc = "create"
    /\ LET id == Len(sessions) + 1
       IN /\ sessions' = Append(sessions,
                 NewSession(invoke[h].provider_slug, invoke[h].variant_slug,
                            invoke[h].model_id, invoke[h].timeout_minutes))
          /\ queue' = IF handoff = "queued" THEN Append(Append(queue, id), id) ELSE queue
          /\ last' = [op |-> "invoke", code |-> HTTP_201_CREATED, id |-> id, error |-> ""]
    /\ invoke' = [invoke EXCEPT ![h] = IdleInvoke]
    /\ UNCHANGED <<catalogVars, cancel, run, containers, channel, faults>>

\* post() from AgentSession.objects.create to the response (lines 129-155);
\* handoff is what run_agent_task.delay does: the task is queued, or the
\* import of the task module raises ImportError, which is swallowed
InvokeCreate(h, handoff) ==
    /\ invoke[h].pc = "create"
    /\ LET id == Len(sessions) + 1
       IN /\ sessions' = Append(sessions,
                 NewSession(invoke[h].provider_slug, invoke[h].variant_slug,
                            invoke[h].model_id, invoke[h].timeout_minutes))
          /\ queue' = IF handoff = "queued" THEN Append(queue, id) ELSE queue
          /\ last' = [op |-> "invoke", code |-> HTTP_201_CREATED, id |-> id, error |-> ""]
    /\ invoke' = [invoke EXCEPT ![h] = IdleInvoke]
    /\ UNCHANGED <<catalogVars, cancel, run, containers, channel, faults>>

Handoffs == {"queued", "ImportError"}

\* post() as one step, from its first line to the response: the count and the
\* create of one request with no step of another process between them
InvokePost(limit, provider_slug, variant_slug, project_id, issue_id, handoff) ==
    /\ \A g \in Handlers : invoke[g].pc = "idle"
    /\ Len(sessions) < limit
    /\ LET r == InvokeChecks(provider_slug, variant_slug, project_id, issue_id)
           variant == CHOOSE v \in ResolveVariant(provider_slug, variant_slug) : TRUE
           id == Len(sessions) + 1
       IN IF r.code # 0
          THEN /\ last' = [op |-> "invoke", code |-> r.code, id |-> 0, error |-> r.error]
               /\ UNCHANGED <<sessions, queue>>
          ELSE /\ sessions' = Append(sessions,
                      NewSession(provider_slug, variant.slug, variant.model_id,
                                 configs[provider_slug].timeout_minutes))
               /\ queue' = IF handoff = "queued" THEN Append(queue, id) ELSE queue
               /\ last' = [op |-> "invoke", code |-> HTTP_201_CREATED, id |-> id, error |-> ""]
    /\ UNCHANGED <<catalogVars, invoke, cancel, run, containers, channel, faults>>

----------------------------------------------------------------------------
(* AgentSessionCancelEndpoint.post (views/invoke.py) *)

\* client.containers.get(container_id).kill(): a running container exits
\* with 137; on a stopped one kill() raises, on a missing one get() raises
\* before kill() is called, and the exception is swallowed
kill(c) == IF c.state = "running" THEN [c EXCEPT !.state = "exited", !.code = 137, !.killed = TRUE]
           ELSE IF c.state = "exited" THEN [c EXCEPT !.killed = TRUE]
           ELSE c

\* a handler that kills the container before it looks at the status
CancelGetKillFirst(s) ==
    /\ s \in 1..Len(sessions)
    /\ cancel[s] = "idle"
    /\ containers' = IF sessions[s].container_id # NoContainer
                     THEN [containers EXCEPT ![sessions[s].container_id] = kill(@)]
                     ELSE containers
    /\ IF sessions[s].status \notin active_statuses
       THEN /\ last' = [op |-> "cancel", code |-> HTTP_400_BAD_REQUEST, id |-> s, error |-> "not_active"]
            /\ UNCHANGED cancel
       ELSE /\ cancel' = [cancel EXCEPT ![s] = "save"]
            /\ UNCHANGED last
    /\ UNCHANGED <<catalogVars, sessions, invoke, queue, run, channel, faults>>

\* a handler that refuses the cancellation when the kill raised
CancelGetStrict(s) ==
    /\ s \in 1..Len(sessions)
    /\ cancel[s] = "idle"
    /\ IF sessions[s].status \notin active_statuses
       THEN /\ last' = [op |-> "cancel", code |-> HTTP_400_BAD_REQUEST, id |-> s, error |-> "not_active"]
            /\ UNCHANGED <<cancel, containers>>
       ELSE /\ containers' = IF sessions[s].container_id # NoContainer
                             THEN [containers EXCEPT ![sessions[s].container_id] = kill(@)]
                             ELSE containers
            /\ IF sessions[s].container_id # NoContainer
                  /\ containers[sessions[s].container_id].state # "running"
               THEN /\ last' = [op |-> "cancel", code |-> HTTP_400_BAD_REQUEST, id |-> s,
                                error |-> "kill_failed"]
                    /\ UNCHANGED cancel
               ELSE /\ cancel' = [cancel EXCEPT ![s] = "save"]
                    /\ UNCHANGED last
    /\ UNCHANGED <<catalogVars, sessions, invoke, queue, run, channel, faults>>

\* post() from the get to the kill (lines 184-212)
CancelGet(s) ==
    /\ s \in 1..Len(sessions)
    /\ cancel[s] = "idle"
    /\ IF sessions[s].status \notin active_statuses
       THEN /\ last' = [op |-> "cancel", code |-> HTTP_400_BAD_REQUEST, id |-> s, error |-> "not_active"]
            /\ UNCHANGED <<cancel, containers>>
       ELSE /\ cancel' = [cancel EXCEPT ![s] = "save"]
            /\ containers' = IF sessions[s].container_id # NoContainer
                             THEN [containers EXCEPT ![sessions[s].container_id] = kill(@)]
                             ELSE containers
            /\ UNCHANGED last
    /\ UNCHANGED <<catalogVars, sessions, invoke, queue, run, channel, faults>>

\* post() from the status assignment to the response (lines 214-219)
CancelSave(s) ==
    /\ cancel[s] = "save"
    /\ sessions' = [sessions EXCEPT ![s] =
                      save(@, [@ EXCEPT !.status = CANCELLED, !.completed_at = Now],
                           {"status", "completed_at"})]
    /\ cancel' = [cancel EXCEPT ![s] = "idle"]
    /\ last' = [op |-> "cancel", code |-> HTTP_200_OK, id |-> s, error |-> ""]
    /\ UNCHANGED <<catalogVars, invoke, queue, run, containers, channel, faults>>

----------------------------------------------------------------------------
(* run_agent_task (tasks.py) *)

\* _publish_chunk: one message appended to the channel of the session
_publish_chunk(s, chunk_type, content) ==
    channel' = [channel EXCEPT ![s] = Append(@, [type |-> chunk_type, content |-> content])]

\* a resolution that reads the environment key of the provider before the
\* instance key
_get_llm_token_env_first(provider_slug, config) ==
    LET d == decrypt_token(config.oauth_token_encrypted)
        env == IF provider_slug = "claude" THEN environ.ANTHROPIC_API_KEY
               ELSE IF provider_slug = "gemini" THEN environ.GOOGLE_API_KEY ELSE ""
    IN IF config.exists /\ config.oauth_token_encrypted # EmptyCiphertext /\ d.raised
       THEN [raised |-> TRUE, value |-> ""]
       ELSE IF config.exists /\ config.oauth_token_encrypted # EmptyCiphertext /\ d.value # ""
       THEN [raised |-> FALSE, value |-> d.value]
       ELSE IF env # ""
       THEN [raised |-> FALSE, value |-> env]
       ELSE [raised |-> FALSE, value |-> environ.LLM_API_KEY]

\* _get_llm_token: workspace token, then instance LLM_API_KEY, then the
\* environment key of the provider; raised is the InvalidToken of decrypt_token
_get_llm_token(provider_slug, config) ==
    LET d == decrypt_token(config.oauth_token_encrypted)
    IN IF config.exists /\ config.oauth_token_encrypted # EmptyCiphertext /\ d.raised
       THEN [raised |-> TRUE, value |-> ""]
       ELSE IF config.exists /\ config.oauth_token_encrypted # EmptyCiphertext /\ d.value # ""
       THEN [raised |-> FALSE, value |-> d.value]
       ELSE IF environ.LLM_API_KEY # ""
       THEN [raised |-> FALSE, value |-> environ.LLM_API_KEY]
       ELSE IF provider_slug = "claude"
       THEN [raised |-> FALSE, value |-> environ.ANTHROPIC_API_KEY]
       ELSE IF provider_slug = "gemini"
       THEN [raised |-> FALSE, value |-> environ.GOOGLE_API_KEY]
       ELSE [raised |-> FALSE, value |-> ""]

\* the environment raises an exception (ok = FALSE) while it may
Fault(ok) == IF ok THEN UNCHANGED faults ELSE faults < MaxFaults /\ faults' = faults + 1

\* the task returned or raised: its locals are gone
Finished(s, pc) == run' = [run EXCEPT ![s] = [IdleRun EXCEPT !.pc = pc]]

\* an exception leaves the try block: control moves to the except clause
Raise(s, message) == run' = [run EXCEPT ![s].pc = "except", ![s].e = message]

Goto(s, pc) == IF pc = "end" THEN Finished(s, pc) ELSE run' = [run EXCEPT ![s].pc = pc]

\* tasks a worker is executing
Executing == {s \in SessionIds : run[s].pc \notin {"none", "end", "raised"}}

\* the instance assigns status (and what else `changes` names) and saves update_fields
SetAndSave(s, changes, update_fields, pc) ==
    LET instance == [f \in AllFields |->
                        IF f \in DOMAIN changes THEN changes[f] ELSE run[s].session[f]]
    IN /\ run' = [run EXCEPT ![s].session = instance, ![s].pc = pc]
       /\ sessions' = [sessions EXCEPT ![s] = save(@, instance, update_fields)]

\* a worker that also sweeps up the pending sessions no task was queued for
TaskGetSweep(s, ok) ==
    /\ s \in 1..Len(sessions)
    /\ \/ queue # <<>> /\ Head(queue) = s
       \/ sessions[s].status = PENDING /\ \A i \in 1..Len(queue) : queue[i] # s
    /\ run[s].pc = "none"
    /\ Cardinality(Executing) < MaxWorkers
    /\ queue' = IF queue # <<>> /\ Head(queue) = s THEN Tail(queue) ELSE queue
    /\ run' = IF ok
              THEN [run EXCEPT ![s].pc = "save_provisioning", ![s].loaded = TRUE,
                               ![s].session = sessions[s]]
              ELSE [run EXCEPT ![s].pc = "except", ![s].e = "OperationalError"]
    /\ Fault(ok)
    /\ UNCHANGED <<catalogVars, sessions, invoke, cancel, containers, channel, last>>

\* a worker takes the task from the broker; AgentSession.objects.get (line 197)
TaskGet(s, ok) ==
    /\ queue # <<>> /\ Head(queue) = s
    /\ run[s].pc = "none"
    /\ Cardinality(Executing) < MaxWorkers
    /\ queue' = Tail(queue)
    /\ run' = IF ok
              THEN [run EXCEPT ![s].pc = "save_provisioning", ![s].loaded = TRUE,
                               ![s].session = sessions[s]]
              ELSE [run EXCEPT ![s].pc = "except", ![s].e = "OperationalError"]
    /\ Fault(ok)
    /\ UNCHANGED <<catalogVars, sessions, invoke, cancel, containers, channel, last>>

\* lines 202-204
SaveProvisioning(s) ==
    /\ run[s].pc = "save_provisioning"
    /\ SetAndSave(s, [status |-> PROVISIONING, started_at |-> Now],
                  {"status", "started_at"}, "publish_provisioning")
    /\ UNCHANGED <<catalogVars, invoke, cancel, queue, containers, channel, faults, last>>

\* a _publish_chunk call of the try block: published, or redis raises
Publish(s, pc, chunk_type, content, next, ok) ==
    /\ run[s].pc = pc
    /\ IF ok
       THEN _publish_chunk(s, chunk_type, content) /\ Goto(s, next)
       ELSE Raise(s, "ConnectionError") /\ UNCHANGED channel
    /\ Fault(ok)
    /\ UNCHANGED <<catalogVars, sessions, invoke, cancel, queue, containers, last>>

\* line 205
PublishProvisioning(s, ok) ==
    Publish(s, "publish_provisioning", "status", "provisioning", "resolve", ok)

\* lines 207-246: workspace config, LLM token, provider metadata
Resolve(s) ==
    /\ run[s].pc = "resolve"
    /\ LET t == _get_llm_token(run[s].session.provider_slug,
                               configs[run[s].session.provider_slug])
       IN IF t.raised
          THEN Raise(s, "InvalidToken")
          ELSE run' = [run EXCEPT ![s].pc = "publish_plan", ![s].llm_token = t.value]
    /\ UNCHANGED <<catalogVars, sessions, invoke, cancel, queue, containers, channel, faults, last>>

\* a selection that calls the provider API for whatever provider has a token
DirectStrategyAnyProvider(s) == run[s].llm_token # ""

\* line 256: the Direct strategy is taken for claude with a resolved token
DirectStrategy(s) == run[s].session.provider_slug = "claude" /\ run[s].llm_token # ""

\* lines 249-256
PublishPlan(s, ok) ==
    Publish(s, "publish_plan", "plan", "plan",
            IF DirectStrategy(s) THEN "direct_save_running" ELSE "docker_run", ok)

\* the frame of a step of the task that saves the row
SaveFrame == UNCHANGED <<catalogVars, invoke, cancel, queue, containers, channel, faults, last>>

\* the frame of a step of the task that only moves the task
TaskFrame == UNCHANGED <<catalogVars, sessions, invoke, cancel, queue, containers, channel, last>>

(* Direct API call, lines 256-284 *)

\* lines 259-260
DirectSaveRunning(s) ==
    /\ run[s].pc = "direct_save_running"
    /\ SetAndSave(s, [status |-> RUNNING], {"status"}, "direct_publish_running")
    /\ SaveFrame

\* line 261
DirectPublishRunning(s, ok) ==
    Publish(s, "direct_publish_running", "status", "running", "direct_save_streaming", ok)

\* lines 263-264
DirectSaveStreaming(s) ==
    /\ run[s].pc = "direct_save_streaming"
    /\ SetAndSave(s, [status |-> STREAMING], {"status"}, "direct_post")
    /\ SaveFrame

\* a provider call whose exception message is the key of the request headers
DirectPostEchoesKey(s, ok) ==
    /\ run[s].pc = "direct_post"
    /\ IF ok THEN Goto(s, "direct_iter") ELSE Raise(s, run[s].llm_token)
    /\ Fault(ok)
    /\ TaskFrame

\* _call_anthropic_streaming, lines 148-155: the POST and raise_for_status
DirectPost(s, ok) ==
    /\ run[s].pc = "direct_post"
    /\ IF ok THEN Goto(s, "direct_iter") ELSE Raise(s, "HTTPError")
    /\ Fault(ok)
    /\ TaskFrame

\* the text of the i-th chunk of an execution
ChunkText(i) == ToString(i)

\* _call_anthropic_streaming, lines 157-177: one turn of the iter_lines loop
\* yields a text delta, or the stream ends, or the stream or the publish raises
DirectIter(s, outcome) ==
    /\ run[s].pc = "direct_iter"
    /\ CASE outcome = "text" ->
              /\ Len(run[s].full_response) < MaxChunks
              /\ LET text == ChunkText(Len(run[s].full_response) + 1)
                 IN /\ run' = [run EXCEPT ![s].full_response = Append(@, text)]
                    /\ _publish_chunk(s, "text", text)
         [] outcome = "end" ->
              Goto(s, "direct_save_completed") /\ UNCHANGED channel
         [] outcome = "raise" ->
              Raise(s, "ConnectionError") /\ UNCHANGED channel
    /\ Fault(outcome # "raise")
    /\ UNCHANGED <<catalogVars, sessions, invoke, cancel, queue, containers, last>>

\* duration_seconds is computed when started_at is set
Duration(instance) == IF instance.started_at # NULL THEN "seconds" ELSE instance.duration_seconds

\* lines 275-283: every column of the row is written from the instance
DirectSaveCompleted(s) ==
    /\ run[s].pc = "direct_save_completed"
    /\ SetAndSave(s, [status |-> COMPLETED, completed_at |-> Now,
                      response_text |-> run[s].full_response,
                      duration_seconds |-> Duration(run[s].session)],
                  AllFields, "direct_publish_done")
    /\ SaveFrame

\* line 284
DirectPublishDone(s, ok) ==
    Publish(s, "direct_publish_done", "done", "", "end", ok)

(* Docker container execution, lines 286-364 *)

\* the exit codes of an agent process that ends by itself
ExitCodes == {0, 1}

RECURSIVE Repeat(_, _)
Repeat(str, n) == IF n = 0 THEN "" ELSE str \o Repeat(str, n - 1)

\* str(e) of the exception of a failed containers.run: a short text, or the
\* message of the daemon, longer than both limits of the except clause
DockerErrorTexts == {"DockerException", Repeat("0123456789", 120)}

\* lines 290-315: docker_client.containers.run with the environment of the
\* agent process, of which the provider key is kept
DockerRun(s, ok) ==
    /\ run[s].pc = "docker_run"
    /\ IF ok
       THEN /\ containers' = [containers EXCEPT ![s] =
                                 [state |-> "running", code |-> 0, killed |-> FALSE,
                                  environment |->
                                      [GOOGLE_API_KEY |-> IF run[s].session.provider_slug = "gemini"
                                                          THEN run[s].llm_token ELSE ""]]]
            /\ Goto(s, "docker_save_running")
       ELSE /\ \E text \in DockerErrorTexts : Raise(s, text)
            /\ UNCHANGED containers
    /\ Fault(ok)
    /\ UNCHANGED <<catalogVars, sessions, invoke, cancel, queue, channel, last>>

\* lines 317-319
DockerSaveRunning(s) ==
    /\ run[s].pc = "docker_save_running"
    /\ SetAndSave(s, [container_id |-> s, status |-> RUNNING],
                  {"container_id", "status"}, "docker_publish_running")
    /\ SaveFrame

\* line 320
DockerPublishRunning(s, ok) ==
    Publish(s, "docker_publish_running", "status", "running", "docker_save_streaming", ok)

\* lines 322-323
DockerSaveStreaming(s) ==
    /\ run[s].pc = "docker_save_streaming"
    /\ SetAndSave(s, [status |-> STREAMING], {"status"}, "docker_logs")
    /\ SaveFrame

\* lines 325-329: one turn of the container.logs loop; the stream yields a
\* chunk while the container runs and ends when the container has exited
DockerLogs(s, outcome, code) ==
    /\ run[s].pc = "docker_logs"
    /\ CASE outcome = "text" ->
              /\ containers[s].state = "running"
              /\ Len(run[s].full_response) < MaxChunks
              /\ LET text == ChunkText(Len(run[s].full_response) + 1)
                 IN /\ run' = [run EXCEPT ![s].full_response = Append(@, text)]
                    /\ _publish_chunk(s, "text", text)
              /\ UNCHANGED containers
         [] outcome = "exit" ->
              /\ containers' = IF containers[s].state = "running"
                               THEN [containers EXCEPT ![s].state = "exited", ![s].code = code]
                               ELSE containers
              /\ Goto(s, "docker_wait")
              /\ UNCHANGED channel
         [] outcome = "raise" ->
              Raise(s, "ConnectionError") /\ UNCHANGED <<channel, containers>>
    /\ Fault(outcome # "raise")
    /\ UNCHANGED <<catalogVars, sessions, invoke, cancel, queue, last>>

\* lines 331-332: container.wait and result.get("StatusCode", -1)
DockerWait(s, result) ==
    /\ run[s].pc = "docker_wait"
    /\ CASE result = "StatusCode" ->
              run' = [run EXCEPT ![s].pc = "docker_save_final", ![s].exit_code = containers[s].code]
         [] result = "missing" ->
              run' = [run EXCEPT ![s].pc = "docker_save_final", ![s].exit_code = -1]
         [] result = "raise" ->
              Raise(s, "ReadTimeout")
    /\ Fault(result # "raise")
    /\ TaskFrame

\* lines 342-357: every column of the row is written from the instance
DockerSaveFinal(s) ==
    /\ run[s].pc = "docker_save_final"
    /\ SetAndSave(s, [status |-> IF run[s].exit_code = 0 THEN COMPLETED ELSE FAILED,
                      completed_at |-> Now,
                      response_text |-> run[s].full_response,
                      duration_seconds |-> Duration(run[s].session),
                      error_message |-> IF run[s].exit_code # 0
                                        THEN "Container exited with code " \o ToString(run[s].exit_code)
                                        ELSE run[s].session.error_message],
                  AllFields, "docker_publish_done")
    /\ SaveFrame

\* line 359
DockerPublishDone(s, ok) ==
    Publish(s, "docker_publish_done", "done", "", "docker_remove", ok)

\* a container.remove whose failure is not swallowed
DockerRemoveUnguarded(s, ok) ==
    /\ run[s].pc = "docker_remove"
    /\ containers' = IF ok THEN [containers EXCEPT ![s].state = "removed"] ELSE containers
    /\ IF ok THEN Goto(s, "end") ELSE Raise(s, "APIError")
    /\ Fault(ok)
    /\ UNCHANGED <<catalogVars, sessions, invoke, cancel, queue, channel, last>>

\* a removal whose failure is recorded in the row
DockerRemoveRecorded(s, ok) ==
    /\ run[s].pc = "docker_remove"
    /\ containers' = IF ok THEN [containers EXCEPT ![s].state = "removed"] ELSE containers
    /\ sessions' = IF ok THEN sessions
                   ELSE [sessions EXCEPT ![s].status = FAILED, ![s].error_message = "APIError"]
    /\ Goto(s, "end")
    /\ Fault(ok)
    /\ UNCHANGED <<catalogVars, invoke, cancel, queue, channel, last>>

\* lines 361-364: container.remove(force=True); a failure is swallowed
DockerRemove(s, ok) ==
    /\ run[s].pc = "docker_remove"
    /\ containers' = IF ok THEN [containers EXCEPT ![s].state = "removed"] ELSE containers
    /\ Goto(s, "end")
    /\ Fault(ok)
    /\ UNCHANGED <<catalogVars, sessions, invoke, cancel, queue, channel, last>>

(* The except clause, lines 366-377 *)

ErrorMessageLimit == 1000
ErrorChunkLimit == 500

\* str(e)[:n]
Truncate(e, n) == IF Len(e) <= n THEN e ELSE SubSeq(e, 1, n)

\* an except clause that publishes the error and leaves the row as it is
ExceptWithoutSave(s) ==
    /\ run[s].pc = "except"
    /\ Goto(s, "except_publish_error") /\ UNCHANGED sessions
    /\ SaveFrame

\* an except clause that also hands the task back to the broker for a retry
ExceptWithRetry(s) ==
    /\ run[s].pc = "except"
    /\ IF run[s].loaded
       THEN SetAndSave(s, [status |-> FAILED,
                           error_message |-> Truncate(run[s].e, ErrorMessageLimit),
                           completed_at |-> Now],
                       {"status", "error_message", "completed_at"}, "except_publish_error")
       ELSE Goto(s, "except_publish_error") /\ UNCHANGED sessions
    /\ queue' = Append(queue, s)
    /\ UNCHANGED <<catalogVars, invoke, cancel, containers, channel, faults, last>>

\* lines 371-375
Except(s) ==
    /\ run[s].pc = "except"
    /\ IF run[s].loaded
       THEN SetAndSave(s, [status |-> FAILED,
                           error_message |-> Truncate(run[s].e, ErrorMessageLimit),
                           completed_at |-> Now],
                       {"status", "error_message", "completed_at"}, "except_publish_error")
       ELSE Goto(s, "except_publish_error") /\ UNCHANGED sessions
    /\ SaveFrame

\* a _publish_chunk call of the except clause: an exception leaves the task
ExceptPublish(s, pc, chunk_type, content, next, ok) ==
    /\ run[s].pc = pc
    /\ IF ok
       THEN _publish_chunk(s, chunk_type, content) /\ Goto(s, next)
       ELSE Finished(s, "raised") /\ UNCHANGED channel
    /\ Fault(ok)
    /\ UNCHANGED <<catalogVars, sessions, invoke, cancel, queue, containers, last>>

\* line 376
ExceptPublishError(s, ok) ==
    ExceptPublish(s, "except_publish_error", "error",
                  Truncate(run[s].e, ErrorChunkLimit), "except_publish_done", ok)

\* line 377
ExceptPublishDone(s, ok) ==
    ExceptPublish(s, "except_publish_done", "done", "", "end", ok)

----------------------------------------------------------------------------
(* AgentSessionStreamEndpoint.get and its event_stream generator (views/stream.py) *)

\* seconds of wall-clock that pass in one step of the clock
TickSeconds == 480

GraceSeconds == 60
HeartbeatSeconds == 15

\* timeout_at - (the time at which timeout_at was computed), in seconds
StreamTimeout(session) == session.timeout_minutes * 60 + GraceSeconds

\* the events the generator yields: named, or without name (the transport's
\* default, "message")
ConnectedEvent(session) == [event |-> "connected", type |-> "", content |-> session.status]
MessageEvent(message) == [event |-> message.type, type |-> message.type, content |-> message.content]
TimeoutEvent == [event |-> "message", type |-> "error", content |-> "Stream timeout"]

\* finally: pubsub.unsubscribe(channel); pubsub.close().  A connection that
\* redis dropped carries no subscription either.
Finally(o, emitted, cursor, exit) ==
    stream' = [stream EXCEPT ![o].pc = "closed", ![o].subscribed = FALSE,
                             ![o].emitted = emitted, ![o].cursor = cursor, ![o].exit = exit]

\* lines 49-63 and 112-117: the row is read once; a terminal row is answered
\* with its serialized snapshot, an active one with the streaming response
StreamGet(o, s) ==
    /\ stream[o].pc = "idle"
    /\ s \in 1..Len(sessions)
    /\ stream' = [stream EXCEPT ![o].pc = IF sessions[s].status \in terminal_statuses
                                          THEN "returned" ELSE "open",
                                ![o].session_id = s,
                                ![o].session = sessions[s]]
    /\ UNCHANGED <<catalogVars, sessions, invoke, cancel, queue, run, containers, channel,
                   faults, last>>

\* serializer.data: the Meta.fields of the instance (serializers/session.py
\* lines 14-41), of which the columns the rows here carry
AgentSessionSerializer(session) ==
    [f \in {"provider_slug", "variant_slug", "model_id", "container_id", "status",
            "started_at", "completed_at", "timeout_minutes", "response_text",
            "error_message", "duration_seconds"} |-> session[f]]

\* AgentSessionDetailEndpoint.get (views/invoke.py lines 166-172): the row is
\* read and answered serialized
DetailGet(o, s) ==
    /\ stream[o].pc = "idle"
    /\ s \in 1..Len(sessions)
    /\ stream' = [stream EXCEPT ![o].pc = "fetched", ![o].session_id = s,
                                ![o].session = sessions[s]]
    /\ UNCHANGED <<catalogVars, sessions, invoke, cancel, queue, run, containers, channel,
                   faults, last>>

\* a generator that reads the row again before it yields `connected`
StreamSubscribeRefreshed(o, ok) ==
    /\ stream[o].pc = "open"
    /\ stream' = IF ok
                 THEN [stream EXCEPT ![o].pc = "connected", ![o].subscribed = TRUE,
                                     ![o].from = Len(channel[stream[o].session_id]),
                                     ![o].cursor = Len(channel[stream[o].session_id]),
                                     ![o].emitted = <<ConnectedEvent(sessions[stream[o].session_id])>>]
                 ELSE [stream EXCEPT ![o].pc = "closed", ![o].exit = "exception"]
    /\ Fault(ok)
    /\ UNCHANGED <<catalogVars, sessions, invoke, cancel, queue, run, containers, channel, last>>

\* lines 67-74, the first next() of the generator: subscribe, then yield
\* `connected` with the status of the instance read by the request; messages
\* published before the subscribe are not delivered
StreamSubscribe(o, ok) ==
    /\ stream[o].pc = "open"
    /\ stream' = IF ok
                 THEN [stream EXCEPT ![o].pc = "connected", ![o].subscribed = TRUE,
                                     ![o].from = Len(channel[stream[o].session_id]),
                                     ![o].cursor = Len(channel[stream[o].session_id]),
                                     ![o].emitted = <<ConnectedEvent(stream[o].session)>>]
                 ELSE [stream EXCEPT ![o].pc = "closed", ![o].exit = "exception"]
    /\ Fault(ok)
    /\ UNCHANGED <<catalogVars, sessions, invoke, cancel, queue, run, containers, channel, last>>

\* lines 76-77: timeout_at and last_heartbeat are taken when the generator
\* is resumed after `connected`
StreamStart(o) ==
    /\ stream[o].pc = "connected"
    /\ stream' = [stream EXCEPT ![o].pc = "loop", ![o].elapsed = 0, ![o].since_heartbeat = 0]
    /\ UNCHANGED <<catalogVars, sessions, invoke, cancel, queue, run, containers, channel,
                   faults, last>>

\* a loop that ends on `done` alone
StreamIterUntilDone(o, ok) ==
    /\ stream[o].pc = "loop"
    /\ LET st == stream[o]
           ch == channel[st.session_id]
           received == st.cursor < Len(ch)
           message == ch[st.cursor + 1]
           cursor == IF received THEN st.cursor + 1 ELSE st.cursor
           yielded == IF received THEN Append(st.emitted, MessageEvent(message)) ELSE st.emitted
           beat == st.since_heartbeat > HeartbeatSeconds
       IN IF ~(st.elapsed < StreamTimeout(st.session))
          THEN ok /\ Finally(o, Append(st.emitted, TimeoutEvent), st.cursor, "timeout")
          ELSE IF ~ok
          THEN Finally(o, st.emitted, st.cursor, "exception")
          ELSE IF received /\ message.type = "done"
          THEN Finally(o, yielded, cursor, "terminal")
          ELSE stream' = [stream EXCEPT
                             ![o].cursor = cursor,
                             ![o].emitted = yielded,
                             ![o].since_heartbeat = IF beat THEN 0 ELSE @]
    /\ Fault(ok)
    /\ UNCHANGED <<catalogVars, sessions, invoke, cancel, queue, run, containers, channel, last>>

\* a loop without deadline: while True
StreamIterNoDeadline(o, ok) ==
    /\ stream[o].pc = "loop"
    /\ LET st == stream[o]
           ch == channel[st.session_id]
           received == st.cursor < Len(ch)
           message == ch[st.cursor + 1]
           cursor == IF received THEN st.cursor + 1 ELSE st.cursor
           yielded == IF received THEN Append(st.emitted, MessageEvent(message)) ELSE st.emitted
           beat == st.since_heartbeat > HeartbeatSeconds
       IN IF ~ok
          THEN Finally(o, st.emitted, st.cursor, "exception")
          ELSE IF received /\ message.type \in {"done", "error"}
          THEN Finally(o, yielded, cursor, "terminal")
          ELSE stream' = [stream EXCEPT
                             ![o].cursor = cursor,
                             ![o].emitted = yielded,
                             ![o].since_heartbeat = IF beat THEN 0 ELSE @]
    /\ Fault(ok)
    /\ UNCHANGED <<catalogVars, sessions, invoke, cancel, queue, run, containers, channel, last>>

\* lines 79-107, one evaluation of the while condition and the iteration or
\* the else clause that follows it; the heartbeat is a comment line, not an
\* event: yielding it leaves last_heartbeat = now
StreamIter(o, ok) ==
    /\ stream[o].pc = "loop"
    /\ LET st == stream[o]
           ch == channel[st.session_id]
           received == st.cursor < Len(ch)
           message == ch[st.cursor + 1]
           cursor == IF received THEN st.cursor + 1 ELSE st.cursor
           yielded == IF received THEN Append(st.emitted, MessageEvent(message)) ELSE st.emitted
           beat == st.since_heartbeat > HeartbeatSeconds
       IN IF ~(st.elapsed < StreamTimeout(st.session))
          THEN ok /\ Finally(o, Append(st.emitted, TimeoutEvent), st.cursor, "timeout")
          ELSE IF ~ok
          THEN Finally(o, st.emitted, st.cursor, "exception")
          ELSE IF received /\ message.type \in {"done", "error"}
          THEN Finally(o, yielded, cursor, "terminal")
          ELSE stream' = [stream EXCEPT
                             ![o].cursor = cursor,
                             ![o].emitted = yielded,
                             ![o].since_heartbeat = IF beat THEN 0 ELSE @]
    /\ Fault(ok)
    /\ UNCHANGED <<catalogVars, sessions, invoke, cancel, queue, run, containers, channel, last>>

\* a generator that is dropped where it stands: no finally clause runs
StreamDisconnectAbandoned(o) ==
    /\ stream[o].pc \in {"open", "connected", "loop"}
    /\ stream' = [stream EXCEPT ![o].pc = "closed", ![o].exit = "disconnect"]
    /\ UNCHANGED <<catalogVars, sessions, invoke, cancel, queue, run, containers, channel,
                   faults, last>>

\* the client goes away: the server closes the response, GeneratorExit is
\* raised at the yield the generator is suspended at, the finally clause runs;
\* a generator that never ran has nothing to run
StreamDisconnect(o) ==
    /\ stream[o].pc \in {"open", "connected", "loop"}
    /\ IF stream[o].pc = "open"
       THEN stream' = [stream EXCEPT ![o].pc = "closed", ![o].exit = "disconnect"]
       ELSE Finally(o, stream[o].emitted, stream[o].cursor, "disconnect")
    /\ UNCHANGED <<catalogVars, sessions, invoke, cancel, queue, run, containers, channel,
                   faults, last>>

\* time.time() advances for every generator; a clock past timeout_at, and a
\* heartbeat that is due, stay so
Tick ==
    /\ \E o \in Observers : stream[o].pc = "loop" /\ stream[o].elapsed < StreamTimeout(stream[o].session)
    /\ stream' = [o \in Observers |->
                    IF stream[o].pc # "loop" THEN stream[o]
                    ELSE [stream[o] EXCEPT
                            !.elapsed = IF @ < StreamTimeout(stream[o].session)
                                        THEN @ + TickSeconds ELSE @,
                            !.since_heartbeat = IF @ > HeartbeatSeconds THEN @ ELSE @ + TickSeconds]]
    /\ UNCHANGED <<catalogVars, sessions, invoke, cancel, queue, run, containers, channel,
                   faults, last>>

(* Wall-clock time of an execution *)

\* soft_time_limit of the task decorator (line 180)
soft_time_limit == 1740

\* where an execution waits for output: resp.iter_lines (line 158), whose
\* timeout bounds one read and not the call, and container.logs(stream=True,
\* follow=True) (line 326), which has no timeout
Waiting(s) == run[s].pc \in {"direct_iter", "docker_logs"}

\* time passes while the execution waits for output; the provider keeps the
\* response alive, the container keeps running
RunTick(s) ==
    /\ Waiting(s)
    /\ run[s].elapsed < soft_time_limit
    /\ run' = [run EXCEPT ![s].elapsed = @ + TickSeconds]
    /\ UNCHANGED <<catalogVars, sessions, invoke, cancel, queue, containers, channel, faults,
                   last, stream>>

\* a time limit that stores TimedOut and ends the run
SoftTimeLimitTimedOut(s) ==
    /\ Waiting(s)
    /\ run[s].elapsed >= soft_time_limit
    /\ sessions' = [sessions EXCEPT ![s].status = TIMED_OUT, ![s].completed_at = Now]
    /\ Finished(s, "end")
    /\ UNCHANGED <<catalogVars, invoke, cancel, queue, containers, channel, faults,
                   last, stream>>

\* Celery raises SoftTimeLimitExceeded in the task when soft_time_limit has
\* passed; it is an Exception and the except clause catches it
SoftTimeLimitExceeded(s) ==
    /\ Waiting(s)
    /\ run[s].elapsed >= soft_time_limit
    /\ Raise(s, "SoftTimeLimitExceeded")
    /\ UNCHANGED <<catalogVars, sessions, invoke, cancel, queue, containers, channel, faults,
                   last, stream>>

----------------------------------------------------------------------------

(* The credential functions, called on their own (utils/encryption.py, tasks.py) *)

\* a ciphertext that authenticates under no key
CorruptCiphertext == <<<<"none", "">>, "corrupt">>

TokenInputs == {"", AccessToken, InstanceKey, "t"}

CiphertextInputs == {EmptyCiphertext, encrypt_token(AccessToken),
                     <<_get_fernet_key(OtherSecret), AccessToken>>, CorruptCiphertext}

\* config = None, a row for every stored token, and a disabled row
ConfigInputs == {NoConfig, Config(FALSE, encrypt_token(AccessToken), 1)}
                \cup {Config(TRUE, c, 1) : c \in CiphertextInputs}

CallFrame == UNCHANGED <<providers, variants, configs, environ, sessions, invoke, cancel, queue,
                         run, containers, channel, faults, last, stream, oauth>>

\* decrypt_token(encrypt_token(token))
EncryptDecrypt(token) ==
    /\ LET d == decrypt_token(encrypt_token(token))
       IN call' = [NoCall EXCEPT !.fn = "encrypt_decrypt", !.token = token,
                                 !.ciphertext = encrypt_token(token),
                                 !.raised = d.raised, !.value = d.value]
    /\ CallFrame

\* decrypt_token(encrypted_token)
Decrypt(encrypted_token) ==
    /\ LET d == decrypt_token(encrypted_token)
       IN call' = [NoCall EXCEPT !.fn = "decrypt_token", !.ciphertext = encrypted_token,
                                 !.raised = d.raised, !.value = d.value]
    /\ CallFrame

\* _get_llm_token(provider_slug, config)
GetLlmToken(provider_slug, config) ==
    /\ LET t == _get_llm_token(provider_slug, config)
       IN call' = [NoCall EXCEPT !.fn = "_get_llm_token", !.provider_slug = provider_slug,
                                 !.config = config,
                                 !.ciphertext = config.oauth_token_encrypted,
                                 !.raised = t.raised, !.value = t.value]
    /\ CallFrame

Calls ==
    \/ \E token \in TokenInputs : EncryptDecrypt(token)
    \/ \E encrypted_token \in CiphertextInputs : Decrypt(encrypted_token)
    \/ \E provider_slug \in {"claude", "gemini", "gpt"}, config \in ConfigInputs :
          GetLlmToken(provider_slug, config)

----------------------------------------------------------------------------

(* The system *)

Invoke(limit) ==
    /\ \/ \E h \in Handlers, r \in Requests :
             InvokeCheck(limit, h, r.provider_slug, r.variant_slug, r.project_id, r.issue_id)
       \/ \E h \in Handlers, handoff \in Handoffs : InvokeCreate(h, handoff)
    /\ UNCHANGED stream

\* admission decisions taken one at a time: each request counts and creates
\* in one step
InvokeSerial(limit) ==
    /\ \E r \in Requests, handoff \in Handoffs :
          InvokePost(limit, r.provider_slug, r.variant_slug, r.project_id, r.issue_id, handoff)
    /\ UNCHANGED stream

Cancel ==
    /\ \/ \E s \in SessionIds : CancelGet(s)
       \/ \E s \in SessionIds : CancelSave(s)
    /\ UNCHANGED stream

Task ==
    /\ \/ \E s \in SessionIds, ok \in BOOLEAN : TaskGet(s, ok)
       \/ \E s \in SessionIds : SaveProvisioning(s)
       \/ \E s \in SessionIds, ok \in BOOLEAN : PublishProvisioning(s, ok)
       \/ \E s \in SessionIds : Resolve(s)
       \/ \E s \in SessionIds, ok \in BOOLEAN : PublishPlan(s, ok)
       \/ \E s \in SessionIds : Except(s)
       \/ \E s \in SessionIds, ok \in BOOLEAN : ExceptPublishError(s, ok)
       \/ \E s \in SessionIds, ok \in BOOLEAN : ExceptPublishDone(s, ok)
    /\ UNCHANGED stream

Direct ==
    /\ \/ \E s \in SessionIds : DirectSaveRunning(s)
       \/ \E s \in SessionIds, ok \in BOOLEAN : DirectPublishRunning(s, ok)
       \/ \E s \in SessionIds : DirectSaveStreaming(s)
       \/ \E s \in SessionIds, ok \in BOOLEAN : DirectPost(s, ok)
       \/ \E s \in SessionIds, o \in {"text", "end", "raise"} : DirectIter(s, o)
       \/ \E s \in SessionIds : DirectSaveCompleted(s)
       \/ \E s \in SessionIds, ok \in BOOLEAN : DirectPublishDone(s, ok)
    /\ UNCHANGED stream

Docker ==
    /\ \/ \E s \in SessionIds, ok \in BOOLEAN : DockerRun(s, ok)
       \/ \E s \in SessionIds : DockerSaveRunning(s)
       \/ \E s \in SessionIds, ok \in BOOLEAN : DockerPublishRunning(s, ok)
       \/ \E s \in SessionIds : DockerSaveStreaming(s)
       \/ \E s \in SessionIds, o \in {"text", "exit", "raise"}, c \in ExitCodes : DockerLogs(s, o, c)
       \/ \E s \in SessionIds, r \in {"StatusCode", "missing", "raise"} : DockerWait(s, r)
       \/ \E s \in SessionIds : DockerSaveFinal(s)
       \/ \E s \in SessionIds, ok \in BOOLEAN : DockerPublishDone(s, ok)
       \/ \E s \in SessionIds, ok \in BOOLEAN : DockerRemove(s, ok)
    /\ UNCHANGED stream

\* the stream requests of the observers `obs`
Stream(obs) ==
    \/ \E o \in obs, s \in SessionIds : StreamGet(o, s)
    \/ \E o \in obs, ok \in BOOLEAN : StreamSubscribe(o, ok)
    \/ \E o \in obs : StreamStart(o)
    \/ \E o \in obs, ok \in BOOLEAN : StreamIter(o, ok)
    \/ Tick

\* every provider, strategy and workspace configuration
Next == Invoke(MaxRunSessions) \/ Cancel \/ Task \/ Direct \/ Docker

Spec == Init /\ [][Next]_vars

\* workspaces in which claude alone can be invoked, so that every run takes
\* the Direct strategy: claude connected with each cap, and the two broken
\* configurations
ClaudeOnlyConfigs ==
    { [claude |-> Config(TRUE, encrypt_token(AccessToken), cap), gemini |-> NoConfig] :
          cap \in 1..MaxCap }
    \cup BrokenConfigs

\* a deployment in which claude is the only connected provider and redis,
\* the database and the provider API raise nothing
InitClaudeOnly ==
    /\ providers = ProvidersReenabled /\ variants = VariantsReenabled
    /\ configs \in ClaudeOnlyConfigs
    /\ environ \in Environs
    /\ sessions = <<>>
    /\ invoke = [h \in Handlers |-> IdleInvoke]
    /\ cancel = [s \in SessionIds |-> "idle"]
    /\ queue = <<>>
    /\ run = [s \in SessionIds |-> IdleRun]
    /\ containers = [s \in SessionIds |-> NoContainerState]
    /\ channel = [s \in SessionIds |-> <<>>]
    /\ faults = MaxFaults
    /\ last = NoResponse
    /\ stream = [o \in Observers |-> IdleStream]
    /\ call = NoCall
    /\ oauth = IdleOAuth

NextAdmission == Invoke(MaxSessions) \/ Cancel \/ Task \/ Direct

SpecAdmission == InitClaudeOnly /\ [][NextAdmission]_vars

NextSerial == InvokeSerial(MaxSessions) \/ Cancel \/ Task \/ Direct

SpecSerial == InitClaudeOnly /\ [][NextSerial]_vars

\* a workspace with claude connected, redis and the provider API raising
\* at most MaxFaults times, and the observers of the sessions
InitStream ==
    /\ providers = ProvidersReenabled /\ variants = VariantsReenabled
    /\ configs = [claude |-> Config(TRUE, encrypt_token(AccessToken), 1), gemini |-> NoConfig]
    /\ environ \in Environs
    /\ sessions = <<>>
    /\ invoke = [h \in Handlers |-> IdleInvoke]
    /\ cancel = [s \in SessionIds |-> "idle"]
    /\ queue = <<>>
    /\ run = [s \in SessionIds |-> IdleRun]
    /\ containers = [s \in SessionIds |-> NoContainerState]
    /\ channel = [s \in SessionIds |-> <<>>]
    /\ faults = 0
    /\ last = NoResponse
    /\ stream = [o \in Observers |-> IdleStream]
    /\ call = NoCall
    /\ oauth = IdleOAuth

\* one observer, who may go away, of a run with faults
NextStream ==
    \/ InvokeSerial(MaxRunSessions) \/ Task \/ Direct \/ Stream({"o1"})
    \/ StreamDisconnect("o1")

SpecStream == InitStream /\ [][NextStream]_vars

\* time passes, and a generator that can run does: get_message returns
\* within a second
SpecStreamFair ==
    /\ SpecStream
    /\ WF_vars(Tick)
    /\ WF_vars(\E ok \in BOOLEAN : StreamIter("o1", ok))

\* a workspace with claude connected, or connected with a token written
\* under another secret; redis and the provider API raise nothing
InitFanout ==
    /\ providers = ProvidersReenabled /\ variants = VariantsReenabled
    /\ configs \in { [claude |-> Config(TRUE, encrypt_token(AccessToken), 1), gemini |-> NoConfig],
                     [claude |-> Config(TRUE, <<_get_fernet_key(OtherSecret), AccessToken>>, 1),
                      gemini |-> NoConfig] }
    /\ environ \in Environs
    /\ sessions = <<>>
    /\ invoke = [h \in Handlers |-> IdleInvoke]
    /\ cancel = [s \in SessionIds |-> "idle"]
    /\ queue = <<>>
    /\ run = [s \in SessionIds |-> IdleRun]
    /\ containers = [s \in SessionIds |-> NoContainerState]
    /\ channel = [s \in SessionIds |-> <<>>]
    /\ faults = MaxFaults
    /\ last = NoResponse
    /\ stream = [o \in Observers |-> IdleStream]
    /\ call = NoCall
    /\ oauth = IdleOAuth

\* a workspace whose stored tokens are corrupt
CorruptWorld ==
    [providers |-> ProvidersReenabled, variants |-> VariantsReenabled,
     configs |-> [claude |-> Config(TRUE, CorruptCiphertext, 1),
                  gemini |-> Config(TRUE, CorruptCiphertext, 1)]]

\* every workspace configuration under every setting of the instance and
\* environment keys
InitCredential ==
    /\ \E w \in Worlds \cup {CorruptWorld} :
          providers = w.providers /\ variants = w.variants /\ configs = w.configs
    /\ environ \in EnvironsAll
    /\ sessions = <<>>
    /\ invoke = [h \in Handlers |-> IdleInvoke]
    /\ cancel = [s \in SessionIds |-> "idle"]
    /\ queue = <<>>
    /\ run = [s \in SessionIds |-> IdleRun]
    /\ containers = [s \in SessionIds |-> NoContainerState]
    /\ channel = [s \in SessionIds |-> <<>>]
    /\ faults = 0
    /\ last = NoResponse
    /\ stream = [o \in Observers |-> IdleStream]
    /\ call = NoCall
    /\ oauth = IdleOAuth

NextCredential == InvokeSerial(MaxRunSessions) \/ Task \/ Direct \/ Docker

SpecCredential == InitCredential /\ [][NextCredential]_vars

\* the credential functions on every input, under every setting of the keys
SpecCalls == InitCredential /\ [][Calls]_vars

\* a workspace with gemini connected, whose sessions run in containers
InitSandbox ==
    /\ providers = ProvidersReenabled /\ variants = VariantsReenabled
    /\ configs = [claude |-> NoConfig, gemini |-> Config(TRUE, encrypt_token(AccessToken), 1)]
    /\ environ \in Environs
    /\ sessions = <<>>
    /\ invoke = [h \in Handlers |-> IdleInvoke]
    /\ cancel = [s \in SessionIds |-> "idle"]
    /\ queue = <<>>
    /\ run = [s \in SessionIds |-> IdleRun]
    /\ containers = [s \in SessionIds |-> NoContainerState]
    /\ channel = [s \in SessionIds |-> <<>>]
    /\ faults = 0
    /\ last = NoResponse
    /\ stream = [o \in Observers |-> IdleStream]
    /\ call = NoCall
    /\ oauth = IdleOAuth

\* sandbox runs, and consumers who fetch the session or ask for its stream
NextSandbox ==
    \/ InvokeSerial(MaxRunSessions) \/ Task \/ Docker
    \/ \E o \in Observers, s \in SessionIds : StreamGet(o, s)
    \/ \E o \in Observers, s \in SessionIds : DetailGet(o, s)

SpecSandbox == InitSandbox /\ [][NextSandbox]_vars

(* OAuth connect and callback (views/oauth.py) *)

OAuthFrame == UNCHANGED <<providers, variants, configs, environ, sessions, invoke, cancel, queue,
                          run, containers, channel, faults, last, stream, call>>

\* AgentOAuthConnectEndpoint.post, lines 103-109: a fresh state token is
\* stored with "<slug>:<provider_slug>:<user id>"; the early returns before
\* it write nothing
OAuthConnect(slug, provider_slug) ==
    /\ oauth.issued < MaxStates
    /\ oauth' = [oauth EXCEPT !.issued = @ + 1,
                              !.redis[oauth.issued + 1] = <<slug, provider_slug, "user">>]
    /\ OAuthFrame

\* the key written by setex expires
StateExpire(state) ==
    /\ oauth.redis[state] # NoStateData
    /\ oauth' = [oauth EXCEPT !.redis[state] = NoStateData]
    /\ OAuthFrame

\* AgentOAuthCallbackEndpoint.get, lines 176-189: r.get(state_key)
CallbackGet(c, slug, provider_slug, state) ==
    /\ oauth.callback[c].pc = "idle"
    /\ LET state_data == oauth.redis[state]
       IN oauth' = [oauth EXCEPT !.callback[c] =
                       [pc |-> IF state_data = NoStateData THEN "invalid_state" ELSE "delete",
                        slug |-> slug, provider_slug |-> provider_slug, state |-> state,
                        state_data |-> state_data]]
    /\ OAuthFrame

\* lines 191-204: r.delete(state_key), then the stored slug and provider are
\* compared with those of the URL; "exchange" goes on to the code exchange
CallbackDelete(c) ==
    /\ oauth.callback[c].pc = "delete"
    /\ LET k == oauth.callback[c]
       IN oauth' = [oauth EXCEPT !.redis[k.state] = NoStateData,
                                 !.callback[c].pc =
                                     IF k.state_data[1] # k.slug \/ k.state_data[2] # k.provider_slug
                                     THEN "state_mismatch" ELSE "exchange"]
    /\ OAuthFrame

NextOAuth ==
    \/ \E slug \in Slugs, provider_slug \in {"claude", "gemini"} : OAuthConnect(slug, provider_slug)
    \/ \E state \in StateTokens : StateExpire(state)
    \/ \E c \in Callbacks, slug \in Slugs, provider_slug \in {"claude", "gemini"},
          state \in StateTokens : CallbackGet(c, slug, provider_slug, state)
    \/ \E c \in Callbacks : CallbackDelete(c)

\* the admins of the workspaces connect providers while callbacks arrive
SpecOAuth == InitStream /\ [][NextOAuth]_vars

\* executions that take their time
NextTimeout ==
    \/ InvokeSerial(MaxRunSessions) \/ Cancel \/ Task \/ Direct \/ Docker
    \/ \E s \in SessionIds : RunTick(s)
    \/ \E s \in SessionIds : SoftTimeLimitExceeded(s)

SpecTimeout == Init /\ [][NextTimeout]_vars

\* two observers of the same run, who stay
NextFanout == InvokeSerial(MaxRunSessions) \/ Task \/ Direct \/ Stream(Observers)

SpecFanout == InitFanout /\ [][NextFanout]_vars

----------------------------------------------------------------------------
(* Properties *)

Rows == 1..Len(sessions)

\* the rows of a provider in one of the four active statuses
ActiveRows(p) ==
    {s \in Rows : /\ sessions[s].provider_slug = p
                  /\ sessions[s].status \in {"pending", "provisioning", "running", "streaming"}}

IsTerminal(st) == st \in {"completed", "failed", "cancelled", "timed_out"}

\* the configured concurrency cap of a provider
Cap(p) == configs[p].max_concurrent_sessions

\* C1: in every reachable state the stored status of a session is terminal
\* if and only if its stored completed_at is set.
C1_TerminalIffCompletedAt ==
    \A s \in Rows : IsTerminal(sessions[s].status) <=> sessions[s].completed_at # NULL

\* C2: a terminal status is absorbing: no step of the task or of a cancel
\* request changes the stored status of a session once it is terminal.
C2_TerminalAbsorbing ==
    [][\A s \in Rows : IsTerminal(sessions[s].status) =>
                          sessions'[s].status = sessions[s].status]_vars

\* C3: one run writes a terminal status exactly once: the except clause is
\* never entered by a run whose success branch has already stored a terminal
\* status.
C3_TerminalWriteOnce ==
    \A s \in SessionIds :
        run[s].pc = "except" => ~(run[s].loaded /\ IsTerminal(run[s].session.status))

\* C4: with admission decisions taken one at a time and the cap unchanged,
\* the number of active sessions of a provider never exceeds
\* max_concurrent_sessions.
C4_ActiveWithinCap ==
    \A p \in ProviderSlugs : configs[p].exists => Cardinality(ActiveRows(p)) <= Cap(p)

\* a request that passes every check of the invocation before the concurrency check
Eligible(r) ==
    /\ r.provider_slug # "" /\ r.project_id # "" /\ r.issue_id # ""
    /\ r.provider_slug \in DOMAIN providers
    /\ providers[r.provider_slug].is_enabled
    /\ \E v \in variants :
          /\ v.provider = r.provider_slug /\ v.is_enabled
          /\ IF r.variant_slug = "" THEN v.is_default ELSE v.slug = r.variant_slug
    /\ configs[r.provider_slug].exists
    /\ configs[r.provider_slug].is_enabled
    /\ configs[r.provider_slug].oauth_token_encrypted # <<>>

Verdict(r) == InvokeChecks(r.provider_slug, r.variant_slug, r.project_id, r.issue_id).code

\* the step ends an invoke request with a rejection
Rejected == last' # last /\ last'.op = "invoke" /\ last'.code # 201

\* the step passes the concurrency check of handler h
Admitted(h) == invoke[h].pc = "idle" /\ invoke'[h].pc = "create"

\* the step creates the session row of handler h
Created(h) == invoke[h].pc = "create" /\ invoke'[h].pc = "idle"

\* C5: a request that passes the other checks is answered 429 when the count
\* of active sessions of its provider has reached max_concurrent_sessions and
\* passes the concurrency check when the count is below it; a step that
\* answers 429 creates no session and enqueues no task, and a step that
\* admits a request finds the count below the cap.
C5_CapDecision ==
    [][/\ \A r \in Requests :
             Eligible(r) =>
                 Verdict(r) = IF Cardinality(ActiveRows(r.provider_slug)) >= Cap(r.provider_slug)
                              THEN 429 ELSE 0
       /\ (Rejected /\ last'.code = 429) =>
             /\ sessions' = sessions /\ queue' = queue /\ invoke' = invoke
             /\ \E p \in ProviderSlugs :
                   configs[p].exists /\ Cardinality(ActiveRows(p)) >= Cap(p)
       /\ \A h \in Handlers :
             Admitted(h) =>
                 Cardinality(ActiveRows(invoke'[h].provider_slug)) < Cap(invoke'[h].provider_slug)
      ]_vars

\* a request was answered 429 while a session of the provider was being executed
C5_DeniedAtCap ==
    /\ last.op = "invoke" /\ last.code = 429
    /\ \E p \in ProviderSlugs :
          /\ configs[p].exists
          /\ Cardinality(ActiveRows(p)) >= Cap(p)
          /\ \E s \in ActiveRows(p) : sessions[s].status \in {"running", "streaming"}

\* C6: while the last answer is the 200 of the cancel request for session s,
\* the count of the admission check does not include s.
C6_CancelledNotCounted ==
    \A s \in Rows :
        (last.op = "cancel" /\ last.code = 200 /\ last.id = s) =>
            active_sessions_count(sessions[s].provider_slug)
                = Cardinality(ActiveRows(sessions[s].provider_slug) \ {s})

\* C7: the create step of an admitted request counts nothing again and takes
\* no lock: whatever the other requests have created since its count, it
\* appends its Pending row.
C7_CreateWithoutRecount ==
    [][\A h \in Handlers :
          Created(h) =>
              /\ Len(sessions') = Len(sessions) + 1
              /\ sessions'[Len(sessions')].status = "pending"
              /\ sessions'[Len(sessions')].provider_slug = invoke[h].provider_slug
              /\ last'.code = 201
      ]_vars

\* more sessions of one provider are Pending, none of them ever picked up or
\* cancelled, than max_concurrent_sessions allows
C7_CapExceeded ==
    \E p \in ProviderSlugs :
        /\ configs[p].exists
        /\ Cardinality({s \in ActiveRows(p) :
                            /\ sessions[s].status = "pending"
                            /\ sessions[s].completed_at = NULL
                            /\ run[s].pc = "none"}) > Cap(p)

\* C8: a step that rejects an invoke request changes nothing but the answer:
\* no session row, config, provider, variant, task queue, run or container.
C8_RejectionChangesNothing ==
    [][Rejected =>
          /\ last'.code \in {400, 404, 429}
          /\ UNCHANGED <<providers, variants, configs, environ, sessions, invoke,
                         cancel, queue, run, containers, channel, faults>>
      ]_vars

\* a request was rejected for a provider that is not configured while the
\* workspace holds a session and a queued task
C8_RejectedWithSessions ==
    /\ last.op = "invoke" /\ last.code = 400 /\ last.error = "not_configured"
    /\ sessions # <<>> /\ queue # <<>>

\* C9: the session table grows only by the create step of an invoke request:
\* it appends one row, Pending, with completed_at and container_id unset,
\* leaves the other rows as they are, puts the id of the row on the queue at
\* most once and answers 201 with that id; and nothing else enqueues a task.
C9_OneRowOneTask ==
    [][/\ Len(sessions') # Len(sessions) =>
             /\ Len(sessions') = Len(sessions) + 1
             /\ \A s \in Rows : sessions'[s] = sessions[s]
             /\ sessions'[Len(sessions')].status = "pending"
             /\ sessions'[Len(sessions')].completed_at = NULL
             /\ sessions'[Len(sessions')].container_id = 0
             /\ queue' \in {queue, Append(queue, Len(sessions'))}
             /\ last' = [op |-> "invoke", code |-> 201, id |-> Len(sessions'), error |-> ""]
       /\ (last' # last /\ last'.op = "invoke" /\ last'.code = 201) =>
             Len(sessions') = Len(sessions) + 1
       /\ Len(queue') > Len(queue) => Len(sessions') = Len(sessions) + 1
       /\ \A i, j \in 1..Len(queue') : queue'[i] = queue'[j] => i = j
      ]_vars

\* the last answer is the 201 of a request whose row is Pending and whose
\* task is queued
C9_CreatedAndQueued ==
    /\ last.op = "invoke" /\ last.code = 201 /\ last.id = Len(sessions)
    /\ sessions[last.id].status = "pending"
    /\ queue # <<>> /\ queue[Len(queue)] = last.id

\* a session no task was queued for and no worker has picked up
Orphan(s) ==
    /\ s \in Rows
    /\ run[s].pc = "none"
    /\ \A i \in 1..Len(queue) : queue[i] # s

\* C10: a session whose hand-off failed is created Pending, is never picked
\* up by a worker, is counted by the admission check while it is Pending,
\* and changes status only to Cancelled, by the save of a cancel request.
C10_OrphanStaysPending ==
    [][/\ \A s \in Rows :
             Orphan(s) =>
                 /\ run'[s].pc = "none"
                 /\ \A i \in 1..Len(queue') : queue'[i] # s
                 /\ sessions[s].status \in {"pending", "cancelled"}
                 /\ sessions'[s].status # sessions[s].status =>
                       /\ cancel[s] = "save"
                       /\ sessions'[s].status = "cancelled"
                       /\ last' = [op |-> "cancel", code |-> 200, id |-> s, error |-> ""]
                 /\ sessions[s].status = "pending" =>
                       active_sessions_count(sessions[s].provider_slug)
                           = 1 + Cardinality(ActiveRows(sessions[s].provider_slug) \ {s})
       /\ (Len(sessions') = Len(sessions) + 1 /\ queue' = queue) =>
             sessions'[Len(sessions')].status = "pending"
      ]_vars

\* a session whose hand-off failed is Pending and fills the cap of its
\* provider: the last request was answered 429
C10_OrphanCounted ==
    \E s \in Rows :
        /\ Orphan(s) /\ sessions[s].status = "pending"
        /\ last.op = "invoke" /\ last.code = 429
        /\ ActiveRows(sessions[s].provider_slug) = {s}
        /\ Cap(sessions[s].provider_slug) = 1

\* the step ends the run of session s
RunEnds(s) == run[s].pc \notin {"none", "end", "raised"} /\ run'[s].pc \in {"end", "raised"}

\* C11: a run that loaded its session leaves it in a terminal status when it
\* ends, by return or by an exception that leaves the task, and the status
\* stays terminal after the run has ended.
C11_RunEndsTerminal ==
    [][\A s \in Rows :
          /\ (RunEnds(s) /\ run[s].loaded) => IsTerminal(sessions'[s].status)
          /\ (run[s].pc \in {"end", "raised"} /\ IsTerminal(sessions[s].status)) =>
                IsTerminal(sessions'[s].status)
      ]_vars

\* a run whose provider API call failed has ended and its session is Failed
C11_FailedRunEnded ==
    \E s \in Rows :
        /\ run[s].pc = "end"
        /\ sessions[s].status = "failed"
        /\ sessions[s].error_message = "HTTPError"

\* the messages on the channel of session s that end an observer loop
TerminalEvents(s) == {i \in 1..Len(channel[s]) : channel[s][i].type \in {"done", "error"}}

\* C12: a run that has ended has published a terminal event (done or error)
\* on the channel of its session.
C12_TerminalEventPublished ==
    \A s \in Rows : run[s].pc \in {"end", "raised"} => TerminalEvents(s) # {}

\* C13: on the channel of a session done is the last message: there is at
\* most one done and no message follows it.
C13_DoneIsLast ==
    \A s \in SessionIds :
        \A i \in 1..Len(channel[s]) : channel[s][i].type = "done" => i = Len(channel[s])

\* a sandbox run has ended after its container could not be removed, and
\* the done it published closes the channel
C13_DoneAfterFailedRemove ==
    \E s \in Rows :
        /\ run[s].pc = "end"
        /\ containers[s].state = "exited"
        /\ Len(channel[s]) > 0
        /\ channel[s][Len(channel[s])].type = "done"

----------------------------------------------------------------------------
(* Observers of the relay channel *)

\* the observers whose generator subscribed
Attached == {o \in Observers : stream[o].emitted # <<>>}

\* the events an observer emitted after `connected`
Events(o) == SubSeq(stream[o].emitted, 2, Len(stream[o].emitted))

\* the events among them that relay a published message
Relayed(o) ==
    IF stream[o].exit = "timeout" THEN SubSeq(Events(o), 1, Len(Events(o)) - 1) ELSE Events(o)

IsTerminalEvent(e) == e.type \in {"done", "error"}

\* C14: each of the two observers of a session emits the messages published
\* after its subscribe, one event per message, in publish order and without
\* gap or duplicate, up to the event that ends its loop; an observer whose loop
\* ended on a terminal message or on the timeout has emitted exactly one
\* terminal event (done or error), and no observer emits anything after a
\* terminal event.
C14_FanOut ==
    \A o \in Attached :
        LET ch == channel[stream[o].session_id]
            n == Len(stream[o].emitted)
        IN /\ Len(Relayed(o)) <= Len(ch) - stream[o].from
           /\ \A i \in 1..Len(Relayed(o)) :
                 Relayed(o)[i] = MessageEvent(ch[stream[o].from + i])
           /\ \A i \in 1..(n - 1) : ~IsTerminalEvent(stream[o].emitted[i])
           /\ stream[o].exit \in {"terminal", "timeout"} => IsTerminalEvent(stream[o].emitted[n])

\* both observers ended on `done`; the one that subscribed later still
\* emitted the text chunk
C14_BothEmittedTextAndDone ==
    /\ \A o \in Observers :
          /\ stream[o].exit = "terminal"
          /\ stream[o].emitted[Len(stream[o].emitted)].type = "done"
          /\ \E i \in 1..Len(stream[o].emitted) : stream[o].emitted[i].type = "text"
    /\ stream["o1"].from < stream["o2"].from

Emitted(o, e) == \E i \in 1..Len(stream[o].emitted) : stream[o].emitted[i] = e

\* C15: the loop of every observer ends.  It ends on the first done or error
\* message it reads, while its clock is short of timeout_minutes*60 + 60
\* seconds, or when its clock has reached that; the 'Stream timeout' error
\* event is emitted exactly by the observers whose loop ended by the timeout.
C15_LoopTerminates ==
    /\ [](\A o \in Observers :
            /\ Emitted(o, TimeoutEvent) <=> stream[o].exit = "timeout"
            /\ stream[o].exit = "timeout" =>
                  /\ stream[o].elapsed >= stream[o].session.timeout_minutes * 60 + 60
                  /\ \A i \in 1..Len(Relayed(o)) : ~IsTerminalEvent(Relayed(o)[i])
            /\ stream[o].exit = "terminal" =>
                  /\ stream[o].elapsed < stream[o].session.timeout_minutes * 60 + 60
                  /\ IsTerminalEvent(stream[o].emitted[Len(stream[o].emitted)])
            /\ stream[o].pc = "loop" =>
                  \A i \in 1..Len(stream[o].emitted) : ~IsTerminalEvent(stream[o].emitted[i]))
    /\ \A o \in Observers : (stream[o].pc = "loop") ~> (stream[o].pc = "closed")

\* an observer that subscribed after the last message of the run ended by
\* the timeout
C15_TimedOutAfterRun ==
    \E o \in Observers :
        /\ stream[o].exit = "timeout" /\ stream[o].pc = "closed"
        /\ stream[o].emitted = <<ConnectedEvent(stream[o].session), TimeoutEvent>>
        /\ run[stream[o].session_id].pc \in {"end", "raised"}

\* C16: an observer whose loop has exited, by a terminal event, the timeout,
\* the client's disconnect or an exception, is unsubscribed from the channel:
\* only a generator that is still running holds a subscription.
C16_ClosedUnsubscribed ==
    \A o \in Observers : stream[o].subscribed => stream[o].pc \in {"connected", "loop"}

\* an observer that had subscribed and relayed a message, and whose client
\* went away
C16_DisconnectedAfterRelay ==
    \E o \in Observers :
        /\ stream[o].pc = "closed" /\ stream[o].exit = "disconnect"
        /\ Len(stream[o].emitted) >= 2
        /\ ~stream[o].subscribed

\* C17: a stream request that finds the stored status terminal is answered
\* with the snapshot of the row and never subscribes or emits; a request that
\* finds it active opens an event stream, and the first event of that stream
\* is `connected` with the status the request read, whatever the row holds by
\* then.
C17_StreamRequest ==
    [][\A o \in Observers :
          /\ (stream[o].pc = "idle" /\ stream'[o].pc # "idle") =>
                LET row == sessions[stream'[o].session_id]
                IN /\ stream'[o].session = row
                   /\ stream'[o].pc = IF row.status \in {COMPLETED, FAILED, CANCELLED, TIMED_OUT}
                                      THEN "returned" ELSE "open"
                   /\ ~stream'[o].subscribed /\ stream'[o].emitted = <<>>
          /\ stream[o].pc = "returned" => stream'[o] = stream[o]
          /\ stream[o].pc # "idle" => stream'[o].session = stream[o].session
          /\ (stream[o].emitted = <<>> /\ stream'[o].emitted # <<>>) =>
                /\ stream[o].pc = "open"
                /\ Len(stream'[o].emitted) = 1
                /\ stream'[o].emitted[1].event = "connected"
                /\ stream'[o].emitted[1].content = stream[o].session.status
      ]_vars

\* one request was answered with the snapshot of the finished session, the
\* other had opened a stream and was told `pending` after the run had started
C17_SnapshotAndStaleConnected ==
    /\ stream["o1"].pc = "returned" /\ stream["o1"].session.status = COMPLETED
    /\ stream["o2"].emitted # <<>>
    /\ stream["o2"].emitted[1] = [event |-> "connected", type |-> "", content |-> PENDING]
    /\ stream["o2"].from > 0

----------------------------------------------------------------------------
(* Cancellation *)

\* the cancel request of session s is refused in this step
CancelRefused(s) == last' # last /\ last'.op = "cancel" /\ last'.id = s /\ last'.code # HTTP_200_OK

\* C18: a cancel request for a session whose status is not active is answered
\* 400: it does not go on to the kill and the save, no container is sent a
\* kill and no field of any session changes.
C18_CancelInactiveRefused ==
    [][\A s \in Rows :
          /\ CancelRefused(s) =>
                /\ last'.code = HTTP_400_BAD_REQUEST
                /\ sessions' = sessions
                /\ containers' = containers
                /\ cancel' = cancel
          /\ (sessions[s].status \in {COMPLETED, FAILED, CANCELLED, TIMED_OUT}
              /\ cancel[s] = "idle") => cancel'[s] = "idle"
      ]_vars

\* the cancel of a completed sandbox run was refused and its container was
\* never sent a kill
C18_CompletedRunRefused ==
    \E s \in Rows :
        /\ last = [op |-> "cancel", code |-> HTTP_400_BAD_REQUEST, id |-> s, error |-> "not_active"]
        /\ sessions[s].status = COMPLETED
        /\ sessions[s].container_id # NoContainer
        /\ containers[sessions[s].container_id].state = "exited"
        /\ ~containers[sessions[s].container_id].killed

\* C19: a cancel request for a session in an active status is never refused.
\* It calls kill on the container of the session if container_id is set and
\* touches no container otherwise, whether or not the kill raises; it then
\* writes status = Cancelled and completed_at, leaves every other field and
\* every other row as stored, and answers 200.
C19_CancelActive ==
    [][\A s \in Rows :
          /\ CancelRefused(s) => sessions[s].status \notin {PENDING, PROVISIONING, RUNNING, STREAMING}
          /\ (cancel[s] = "idle" /\ cancel'[s] = "save") =>
                /\ sessions[s].status \in {PENDING, PROVISIONING, RUNNING, STREAMING}
                /\ sessions' = sessions
                /\ IF sessions[s].container_id = NoContainer
                   THEN containers' = containers
                   ELSE LET c == sessions[s].container_id
                        IN /\ containers'[c].killed
                           /\ containers[c].state = "running" => containers'[c].state = "exited"
                           /\ \A d \in SessionIds \ {c} : containers'[d] = containers[d]
          /\ (cancel[s] = "save" /\ cancel'[s] = "idle") =>
                /\ sessions' = [sessions EXCEPT ![s] = [@ EXCEPT !.status = CANCELLED,
                                                                 !.completed_at = Now]]
                /\ containers' = containers
                /\ last' = [op |-> "cancel", code |-> HTTP_200_OK, id |-> s, error |-> ""]
      ]_vars

\* a session was cancelled although the kill of its container, which had
\* already exited, raised
C19_CancelledAfterFailedKill ==
    \E s \in Rows :
        /\ last = [op |-> "cancel", code |-> HTTP_200_OK, id |-> s, error |-> ""]
        /\ sessions[s].status = CANCELLED /\ sessions[s].completed_at = Now
        /\ sessions[s].container_id # NoContainer
        /\ containers[sessions[s].container_id].killed
        /\ containers[sessions[s].container_id].code # 137

----------------------------------------------------------------------------
(* Variant resolution *)

\* handler h creates a session row in this step
Creates(h) ==
    invoke[h].pc = "create" /\ invoke'[h].pc = "idle" /\ Len(sessions') = Len(sessions) + 1

\* C20: a session is created only with a variant of the requested provider
\* that is enabled; with an explicit variant slug it is the variant of that
\* slug and never the default in its place, with the slug omitted it is a
\* variant flagged default; the row carries the model_id of that variant.  A
\* request whose variant cannot be resolved is answered 404 and creates
\* nothing.
C20_VariantResolution ==
    [][/\ \A h \in Handlers :
             Creates(h) =>
                LET row == sessions'[Len(sessions')]
                IN /\ row.provider_slug = invoke[h].provider_slug
                   /\ \E v \in variants :
                         /\ v.provider = row.provider_slug /\ v.slug = row.variant_slug
                         /\ v.is_enabled
                         /\ row.model_id = v.model_id
                         /\ IF invoke[h].requested # "" THEN v.slug = invoke[h].requested
                                                        ELSE v.is_default
       /\ (last' # last /\ last'.op = "invoke" /\ last'.error \in {"variant", "no_default"}) =>
             /\ last'.code = HTTP_404_NOT_FOUND
             /\ sessions' = sessions /\ invoke' = invoke /\ queue' = queue
      ]_vars

\* a session of gemini was created with the variant the request named, flash,
\* which is not the default of gemini
C20_ExplicitNonDefaultCreated ==
    \E s \in Rows :
        /\ sessions[s].provider_slug = "gemini" /\ sessions[s].variant_slug = "flash"
        /\ sessions[s].model_id = "gemini-2.0-flash"
        /\ \E v \in variants : v.provider = "gemini" /\ v.is_default /\ v.slug = "pro"

----------------------------------------------------------------------------
(* Credentials *)

\* a session row is appended in this step
RowCreated == Len(sessions') = Len(sessions) + 1

\* C21: a session is created only for a provider whose credential record of
\* the workspace exists, is enabled and holds a non-empty encrypted token,
\* whatever the instance key and the environment keys are; a request refused
\* for the lack of it is answered 400 and creates nothing.
C21_CredentialRequired ==
    [][/\ RowCreated =>
             LET config == configs[sessions'[Len(sessions')].provider_slug]
             IN config.exists /\ config.is_enabled /\ config.oauth_token_encrypted # EmptyCiphertext
       /\ (last' # last /\ last'.op = "invoke" /\ last'.error \in {"not_configured", "no_token"}) =>
             /\ last'.code = HTTP_400_BAD_REQUEST
             /\ sessions' = sessions /\ queue' = queue
      ]_vars

\* a request was refused for its empty token although the instance key and
\* the environment key of the provider are set
C21_RefusedDespiteFallbackKeys ==
    /\ last = [op |-> "invoke", code |-> HTTP_400_BAD_REQUEST, id |-> 0, error |-> "no_token"]
    /\ environ.LLM_API_KEY # "" /\ environ.ANTHROPIC_API_KEY # ""
    /\ configs["claude"].exists /\ configs["claude"].oauth_token_encrypted = EmptyCiphertext
    /\ sessions = <<>>

\* the token a credential record holds in the clear, "" without record or
\* without stored token
WorkspaceToken(config) ==
    IF config.exists /\ \E t \in TokenInputs : config.oauth_token_encrypted = <<_get_fernet_key(SECRET_KEY), t>>
    THEN (CHOOSE t \in TokenInputs : config.oauth_token_encrypted = <<_get_fernet_key(SECRET_KEY), t>>)
    ELSE ""

\* the environment key of a provider
EnvKey(provider_slug) ==
    IF provider_slug = "claude" THEN environ.ANTHROPIC_API_KEY
    ELSE IF provider_slug = "gemini" THEN environ.GOOGLE_API_KEY
    ELSE ""

\* C22: a call of _get_llm_token that returns, returns the workspace token if
\* the record holds one; else the instance LLM_API_KEY if it is set; else the
\* environment key of the provider (ANTHROPIC_API_KEY for claude,
\* GOOGLE_API_KEY for gemini); else the empty string.
C22_TokenPriority ==
    (call.fn = "_get_llm_token" /\ ~call.raised) =>
        call.value = IF WorkspaceToken(call.config) # "" THEN WorkspaceToken(call.config)
                     ELSE IF environ.LLM_API_KEY # "" THEN environ.LLM_API_KEY
                     ELSE EnvKey(call.provider_slug)

\* without workspace token the instance key was returned although the
\* environment key of the provider is set too
C22_InstanceKeyBeforeEnvKey ==
    /\ call.fn = "_get_llm_token" /\ call.provider_slug = "gemini"
    /\ call.config = NoConfig
    /\ environ.LLM_API_KEY = InstanceKey /\ environ.GOOGLE_API_KEY = GoogleEnvKey
    /\ call.value = InstanceKey

\* the steps of the two execution strategies
DirectPcs == {"direct_save_running", "direct_publish_running", "direct_save_streaming",
              "direct_post", "direct_iter", "direct_save_completed", "direct_publish_done"}
DockerPcs == {"docker_run", "docker_save_running", "docker_publish_running",
              "docker_save_streaming", "docker_logs", "docker_wait", "docker_save_final",
              "docker_publish_done", "docker_remove"}

\* the stored token of the provider of session s is no ciphertext of the
\* instance secret
Undecryptable(s) ==
    LET c == configs[sessions[s].provider_slug].oauth_token_encrypted
    IN c # EmptyCiphertext /\ c[1] # _get_fernet_key(SECRET_KEY)

\* C23: when the stored token of the workspace is corrupt or was encrypted
\* under another key, credential resolution raises, whatever the instance and
\* environment keys are: the run takes no step of the Direct or of the
\* sandbox strategy, no container exists for it, and the except clause
\* stores Failed, which is the status the session keeps.
C23_DecryptionFailsClosed ==
    [][\A s \in Rows : Undecryptable(s) =>
          /\ (run[s].pc = "resolve" /\ run'[s].pc # "resolve") =>
                run'[s].pc = "except" /\ run'[s].e = "InvalidToken" /\ run'[s].llm_token = ""
          /\ (run[s].pc = "except" /\ run[s].loaded /\ run'[s].pc # "except") =>
                sessions'[s].status = FAILED /\ sessions'[s].completed_at # NULL
          /\ run'[s].pc \notin DirectPcs \cup DockerPcs
          /\ containers'[s].state = "absent"
          /\ sessions'[s].status \in {PENDING, PROVISIONING, FAILED}
          /\ sessions[s].status = FAILED => sessions'[s].status = FAILED
      ]_vars

\* a run over a token of another key ended Failed without container although
\* the instance key and the environment key were set
C23_FailedDespiteFallbackKeys ==
    \E s \in Rows :
        /\ Undecryptable(s)
        /\ environ.LLM_API_KEY # "" /\ environ.ANTHROPIC_API_KEY # ""
        /\ run[s].pc = "end"
        /\ sessions[s].status = FAILED /\ sessions[s].error_message = "InvalidToken"
        /\ containers[s].state = "absent"

\* C24: under one instance secret, decrypting the encryption of a non-empty
\* token gives the token back, and the encryption is a ciphertext; the empty
\* token encrypts to the empty string, no ciphertext, and the empty string
\* decrypts to the empty token.
C24_RoundTrip ==
    /\ call.fn = "encrypt_decrypt" =>
          IF call.token # ""
          THEN /\ call.ciphertext # EmptyCiphertext
               /\ call.ciphertext # call.token
               /\ ~call.raised
               /\ call.value = call.token
          ELSE /\ call.ciphertext = EmptyCiphertext
               /\ ~call.raised
               /\ call.value = ""
    /\ (call.fn = "decrypt_token" /\ call.ciphertext = EmptyCiphertext) =>
          ~call.raised /\ call.value = ""

\* the access token went through encryption and decryption
C24_AccessTokenRoundTripped ==
    /\ call.fn = "encrypt_decrypt"
    /\ call.token = AccessToken
    /\ call.ciphertext = <<_get_fernet_key(SECRET_KEY), AccessToken>>
    /\ call.value = AccessToken

\* C25: after the plan is published a run goes on with the Direct strategy
\* exactly when its provider is claude and the resolved token is not empty,
\* and with the sandbox strategy otherwise. A run stays in the strategy it
\* took: under Direct no container is started and container_id stays unset,
\* and a container is started and container_id is set only by the sandbox
\* strategy, which never takes the step that calls the provider API.
C25_StrategyExclusive ==
    [][\A s \in SessionIds :
          LET direct == run[s].session.provider_slug = "claude" /\ run[s].llm_token # ""
          IN /\ (run[s].pc = "publish_plan" /\ run'[s].pc \notin {"publish_plan", "except"}) =>
                   run'[s].pc = IF direct THEN "direct_save_running" ELSE "docker_run"
             /\ run'[s].pc \in DirectPcs =>
                   /\ run[s].pc \in DirectPcs \cup {"publish_plan"}
                   /\ direct
                   /\ containers'[s].state = "absent"
                   /\ sessions'[s].container_id = NoContainer
                   /\ run'[s].session.container_id = NoContainer
             /\ run'[s].pc \in DockerPcs =>
                   /\ run[s].pc \in DockerPcs \cup {"publish_plan"}
                   /\ ~direct
             /\ (containers[s].state = "absent" /\ containers'[s].state # "absent") =>
                   run[s].pc = "docker_run"
             /\ (s \in Rows /\ sessions[s].container_id = NoContainer
                            /\ sessions'[s].container_id # NoContainer) =>
                   run[s].pc = "docker_save_running"
      ]_vars

\* a gemini run holds a resolved token and runs in its container
C25_SandboxWithToken ==
    \E s \in Rows :
        /\ run[s].session.provider_slug = "gemini"
        /\ run[s].llm_token # ""
        /\ run[s].pc \in DockerPcs
        /\ containers[s].state = "running"
        /\ sessions[s].container_id # NoContainer

\* the row as lines 342-357 store it for exit code `code` and transcript `text`
SandboxOutcome(row, code, text) ==
    /\ row.status = IF code = 0 THEN COMPLETED ELSE FAILED
    /\ row.error_message = IF code = 0 THEN NULL
                           ELSE "Container exited with code " \o ToString(code)
    /\ row.completed_at # NULL
    /\ row.response_text = text

\* the row holds the outcome of a sandbox run
SandboxOutcomeStored(row) ==
    /\ row.container_id # NoContainer
    /\ row.completed_at # NULL
    /\ \/ row.status = COMPLETED /\ row.error_message = NULL
       \/ row.status = FAILED /\ \E code \in ExitCodes \cup {137, -1} :
              row.error_message = "Container exited with code " \o ToString(code)

\* C26: a sandbox run whose container exited with code 0 stores Completed
\* with error_message unset, one whose container exited with another code or
\* reported no status code stores Failed with the exit code in error_message,
\* both with completed_at and the transcript; and the session ends with what
\* was stored: no later step changes the status or the error_message.
C26_SandboxOutcome ==
    [][\A s \in Rows :
          /\ (run[s].pc = "docker_save_final" /\ run'[s].pc # "docker_save_final") =>
                SandboxOutcome(sessions'[s], run[s].exit_code, run[s].full_response)
          /\ SandboxOutcomeStored(sessions[s]) =>
                /\ sessions'[s].status = sessions[s].status
                /\ sessions'[s].error_message = sessions[s].error_message
      ]_vars

\* C27: the session data of a session-fetch response and of the snapshot
\* response of the stream endpoint carries no container handle and no
\* credential field.
C27_NoHandleInResponses ==
    \A o \in Observers :
        stream[o].pc \in {"fetched", "returned"} =>
            LET data == AgentSessionSerializer(stream[o].session)
            IN /\ "container_id" \in DOMAIN data => data.container_id = NoContainer
               /\ DOMAIN data \cap {"oauth_token_encrypted", "llm_token", "access_token"} = {}

\* C28: a session whose stored status is terminal has no stored container
\* handle: container_id is null once the sandbox run completed, failed or
\* was cancelled.
C28_HandleCleared ==
    \A s \in Rows :
        sessions[s].status \in terminal_statuses => sessions[s].container_id = NoContainer

\* the callbacks that passed the state validation with state token t
Accepted(t) == {c \in Callbacks : oauth.callback[c].pc = "exchange" /\ oauth.callback[c].state = t}

\* C29: for each state token at most one callback passes the state
\* validation and goes on to the code exchange, also when two callbacks
\* with the same state run at the same time; once a callback was accepted
\* the key of its token is gone from redis.
C29_StateSingleUse ==
    \A t \in StateTokens :
        /\ Cardinality(Accepted(t)) <= 1
        /\ Accepted(t) # {} => oauth.redis[t] = NoStateData

\* the model-provider keys of the deployment: the token stored for the
\* workspace, the instance key and the environment keys
Secrets ==
    {AccessToken} \cup ({environ.LLM_API_KEY, environ.ANTHROPIC_API_KEY, environ.GOOGLE_API_KEY} \ {""})

C31_TransitionTable ==
    [][\A s \in Rows :
          LET old == sessions[s].status
              new == sessions'[s].status
          IN new # old =>
                /\ new = PROVISIONING => old = PENDING
                /\ new = RUNNING => old = PROVISIONING
                /\ new = STREAMING => old = RUNNING
                /\ new = COMPLETED => old = STREAMING
                /\ new = CANCELLED => old \in active_statuses
      ]_vars

\* C32: the stored status is Streaming only when a text chunk of the session
\* has been published: until the first chunk the status of an execution is
\* Running, and a run without chunk never is Streaming.
C32_StreamingAfterFirstChunk ==
    \A s \in Rows :
        sessions[s].status = STREAMING =>
            \E i \in 1..Len(channel[s]) : channel[s][i].type = "text"

\* C33: no execution goes on beyond the timeout of its session with the
\* session still Running or Streaming: when timeout_minutes have passed the
\* session has been moved to TimedOut or Failed.
C33_BoundedByTimeout ==
    \A s \in Rows :
        (Waiting(s) /\ run[s].elapsed > run[s].session.timeout_minutes * 60) =>
            sessions[s].status \notin {RUNNING, STREAMING}

\* C34: the task of a session is enqueued once, when the row is created, and
\* picked up once: a run that ended or raised is not started again, so the
\* provider API call is entered and the container is started at most once
\* for a session, whatever failed in the run.
C34_ExecutedAtMostOnce ==
    [][\A s \in SessionIds :
          LET queued(q) == {i \in 1..Len(q) : q[i] = s}
          IN /\ Cardinality(queued(queue')) <= 1
             /\ (queued(queue') # {} /\ queued(queue) = {}) =>
                   Len(sessions) = s - 1 /\ Len(sessions') = s
             /\ (run'[s].pc # "none" /\ run[s].pc = "none") => queued(queue) # {}
             /\ run[s].pc # "none" => run'[s].pc # "none" /\ queued(queue') = {}
             /\ run[s].pc \in {"end", "raised"} => run'[s].pc = run[s].pc
             /\ (run'[s].pc = "direct_iter" /\ run[s].pc # "direct_iter") => run[s].pc = "direct_post"
             /\ run'[s].pc = "direct_post" => run[s].pc \in {"direct_post", "direct_save_streaming"}
             /\ (containers'[s].state = "running" /\ containers[s].state # "running") =>
                   containers[s].state = "absent" /\ run[s].pc = "docker_run"
      ]_vars

\* a run that had started its container failed and ended, and no task of
\* the session is queued
C34_FailedRunNotRetried ==
    \E s \in Rows :
        /\ run[s].pc = "end"
        /\ sessions[s].status = FAILED
        /\ containers[s].state \in {"running", "exited"}
        /\ \A i \in 1..Len(queue) : queue[i] # s

\* C35: a run for which a container was started does not end before
\* container.remove was attempted: the step that ends such a run is the
\* removal, or the removal was made before and the container is gone.
C35_RemovalAttempted ==
    [][\A s \in SessionIds :
          (/\ run[s].pc \notin {"none", "end", "raised"}
           /\ run'[s].pc \in {"end", "raised"}
           /\ containers[s].state # "absent") =>
              run[s].pc = "docker_remove" \/ containers[s].state = "removed"
      ]_vars

\* C36: the removal of the container, failed or not, changes no column of
\* the row the run wrote, publishes nothing and ends the run: the except
\* clause is not entered.
C36_RemovalKeepsOutcome ==
    [][\A s \in Rows :
          (run[s].pc = "docker_remove" /\ run'[s].pc # "docker_remove") =>
              /\ sessions'[s] = sessions[s]
              /\ channel'[s] = channel[s]
              /\ run'[s].pc = "end"
      ]_vars

\* the container that exited with code 1 could not be removed, and the row
\* holds the outcome of the run
C36_FailedRemoveAfterExit1 ==
    \E s \in Rows :
        /\ run[s].pc = "end"
        /\ containers[s] = [NoContainerState EXCEPT !.state = "exited", !.code = 1,
                                                    !.environment = containers[s].environment]
        /\ faults = MaxFaults
        /\ sessions[s].status = FAILED
        /\ sessions[s].error_message = "Container exited with code 1"
        /\ sessions[s].completed_at # NULL

\* C37: the except clause of a run that loaded its session stores Failed,
\* completed_at and the first 1000 characters of the exception text and
\* leaves every other column of the row as it is; it then publishes error
\* with the first 500 characters of the text, and done after it.
C37_FailureBranch ==
    [][\A s \in Rows :
          /\ (run[s].pc = "except" /\ run[s].loaded /\ run'[s].pc # "except") =>
                LET message == sessions'[s].error_message
                IN /\ sessions'[s].status = FAILED
                   /\ sessions'[s].completed_at # NULL
                   /\ Len(message) <= ErrorMessageLimit
                   /\ message = SubSeq(run[s].e, 1, Len(message))
                   /\ Len(run[s].e) > ErrorMessageLimit => Len(message) = ErrorMessageLimit
                   /\ \A f \in AllFields \ {"status", "completed_at", "error_message"} :
                         sessions'[s][f] = sessions[s][f]
                   /\ run'[s].pc = "except_publish_error"
          /\ (run[s].pc = "except_publish_error" /\ run'[s].pc # "except_publish_error") =>
                /\ Len(channel'[s]) = Len(channel[s]) + 1
                /\ LET m == channel'[s][Len(channel'[s])]
                   IN /\ m.type = "error"
                      /\ Len(m.content) <= ErrorChunkLimit
                      /\ m.content = SubSeq(run[s].e, 1, Len(m.content))
                /\ run'[s].pc = "except_publish_done"
          /\ (run[s].pc = "except_publish_done" /\ run'[s].pc # "except_publish_done") =>
                /\ Len(channel'[s]) = Len(channel[s]) + 1
                /\ channel'[s][Len(channel'[s])] = [type |-> "done", content |-> ""]
      ]_vars

\* C38: an observer whose request found the session active misses no
\* terminal event: while the request has read the row and its generator has
\* not subscribed yet, neither done nor error is published on the channel
\* of the session.
C38_NoTerminalEventMissed ==
    [][\A o \in Observers :
          stream[o].pc = "open" =>
              LET c == channel[stream[o].session_id]
                  d == channel'[stream[o].session_id]
              IN \A i \in (Len(c) + 1)..Len(d) : d[i].type \notin {"done", "error"}
      ]_vars

\* C39: a run that loaded its session Cancelled, the session having been
\* cancelled before the task was picked up, writes nothing to the row and
\* goes on to no step of the execution: it ends.
C39_CancelledPendingNotExecuted ==
    [][\A s \in Rows :
          (run[s].pc = "save_provisioning" /\ run[s].session.status = CANCELLED) =>
              /\ sessions'[s] = sessions[s]
              /\ run'[s].pc \in {"save_provisioning", "end"}
      ]_vars

\* C40: no row ever holds the status TimedOut, and no instance of a run
\* does: a terminal session is Completed, Failed or Cancelled, also when its
\* execution ran into a time limit.
C40_TimedOutUnreachable ==
    \A s \in Rows :
        /\ sessions[s].status # TIMED_OUT
        /\ run[s].session.status # TIMED_OUT
        /\ sessions[s].status \in terminal_statuses =>
              sessions[s].status \in {COMPLETED, FAILED, CANCELLED}

\* an execution ran into the time limit of the task and its session is Failed
C40_TimeLimitStoredFailed ==
    \E s \in Rows :
        /\ sessions[s].status = FAILED
        /\ sessions[s].error_message = "SoftTimeLimitExceeded"
        /\ run[s].pc = "end"

====
